---- MODULE Spec2Model ----
(***************************************************************************)
(* State-machine model of the data-freshness pipeline of the mutual-fund   *)
(* FAQ chatbot: ScheduledScraper (scripts/scheduled_scraper.py), the       *)
(* catalog operations of ChromaVectorStore (vector_store/chroma_store.py), *)
(* ingest_data.main (scripts/ingest_data.py) and the manual trigger of     *)
(* api/main.py.                                                            *)
(*                                                                         *)
(* Time is an integer clock; one tick is one hour of the schedule.  None   *)
(* is modelled as -1 for times and as the string "None" elsewhere.  A URL  *)
(* string is a sequence of characters.                                     *)
(***************************************************************************)
EXTENDS Integers, Sequences, FiniteSets, TLC

\* ------------------------------------------------------------------ bounds
MaxUrls == 2         \* most URLs in the "urls" list of scraper_config.json
MaxClock == 3        \* the clock stops ticking here
MaxInterval == 2     \* largest schedule.interval_hours of a configuration
MaxCand == 2         \* most candidate URLs in one call of find_new_urls
MaxTexts == 3        \* most texts in one call of _batch_embed_documents
MaxBatch == 2        \* largest batch_size of such a call
MaxRetries == 2      \* largest max_retries of such a call
MaxDocs == 2         \* most chunks in one call of upsert_documents
MaxStatusCalls == 3  \* most calls of update_status and reset_status of a run
MaxStops == 2        \* most calls of stop()
MaxTs == 3           \* latest time written into a chunk's metadata
MaxMetas == 2        \* most chunks of the collection read by a freshness check
MaxUrlLen == 5       \* most tokens of a string given to normalize_url
MaxWords == 3        \* most words of a question
MaxK == 2            \* greatest k given to query_with_retrieval
MaxChunks == 2       \* most chunks of the collection a query reads
MaxAnswerLen == 4    \* most tokens of an answer of the LLM
MaxDist == 2         \* greatest distance of a chunk from the query
MaxStarts == 3       \* most calls of start() on one ScheduledScraper

TopK == 5            \* config.TOP_K_RESULTS
CompareMinK == 5     \* the least retrieval_k of a comparison

BatchCeiling == 10   \* the greatest batch handed to the embedding provider
DefaultRetries == 2  \* max_retries of _batch_embed_documents when not given

\* time.sleep(300) of scheduler_loop's except branch, in ticks: not zero
Cooldown == 1

None == 0 - 1

VARIABLES
    cfg,         \* self.config: the loaded scraper_config.json
    status,      \* ScheduledScraper._status, the class-level dict
    store_urls,  \* source_url of the chunks in the collection
    latest_ts,   \* newest ingestion_timestamp in the collection (None: no chunk)
    disk,        \* URLs with a scraped JSON file in the data directory
    clock,       \* datetime.now()
    pc,          \* position of each thread
    loc,         \* local variables of the operation each thread executes
    lp,          \* local variables of scheduler_loop
    running,     \* self.running
    next_run,    \* self.next_run
    fq,          \* one call of ChromaVectorStore.find_new_urls
    emb,         \* one call of ChromaVectorStore._batch_embed_documents
    col,         \* the collection's records, and calls of upsert_documents
    st,          \* ScheduledScraper._status key by key, and its readers
    fr,          \* one call of ChromaVectorStore.check_if_data_needs_update
    rag,         \* one call of RAGChain.query_with_retrieval
    ss,          \* one call of a similarity search or of normalize_url
    sched        \* one ScheduledScraper under start() and stop(): its threads

\* the state of the scheduler and of the operations it runs
pipe == <<cfg, status, store_urls, latest_ts, disk, clock, pc, loc, lp,
          running, next_run>>

\* the state of the single calls into ChromaVectorStore and of the status dict
aux == <<fq, emb, col, st, fr, rag, ss, sched>>

vars == <<cfg, status, store_urls, latest_ts, disk, clock, pc, loc, lp,
          running, next_run, fq, emb, col, st, fr, rag, ss, sched>>

\* the value of a variable that the specification at hand does not use
Idle == <<>>

Threads == {"loop", "op"}

\* ------------------------------------------------------------- URL strings
Letters == <<"a", "b", "c", "d">>

Url(i) == <<Letters[i]>>

\* str.lower() on one character
Lower(c) ==
    CASE c = "A" -> "a"
      [] c = "B" -> "b"
      [] c = "C" -> "c"
      [] c = "D" -> "d"
      [] OTHER -> c

RECURSIVE LStrip(_)
LStrip(s) == IF s # <<>> /\ Head(s) = " " THEN LStrip(Tail(s)) ELSE s

RECURSIVE RStripCh(_, _)
RStripCh(s, ch) ==
    IF s # <<>> /\ s[Len(s)] = ch THEN RStripCh(SubSeq(s, 1, Len(s) - 1), ch) ELSE s

\* normalisation that forgets str.lower()
Normalize_KeepCase(u) == RStripCh(RStripCh(LStrip(u), " "), "/")

\* url.strip().rstrip('/').lower()
Normalize(u) ==
    LET t == RStripCh(RStripCh(LStrip(u), " "), "/")
    IN  [k \in 1..Len(t) |-> Lower(t[k])]

RECURSIVE SeqFilter(_, _)
SeqFilter(s, keep) ==
    IF s = <<>> THEN <<>>
    ELSE (IF Head(s) \in keep THEN <<Head(s)>> ELSE <<>>) \o SeqFilter(Tail(s), keep)

Range(s) == {s[k] : k \in 1..Len(s)}

\* ChromaVectorStore.get_existing_urls; scan_ok = FALSE: collection.get raised
get_existing_urls(scan_ok) ==
    IF scan_ok THEN {Normalize(u) : u \in {v \in store_urls : v # <<>>}} \ {<<>>}
    ELSE {}

\* ChromaVectorStore.find_new_urls
find_new_urls(config_urls, scan_ok) ==
    LET existing_urls == get_existing_urls(scan_ok)
    IN  SeqFilter(config_urls,
                  {u \in Range(config_urls) :
                      /\ u # <<>>
                      /\ Normalize(u) # <<>>
                      /\ Normalize(u) \notin existing_urls})

\* ChromaVectorStore.get_latest_ingestion_timestamp
get_latest_ingestion_timestamp(scan_ok) == IF scan_ok THEN latest_ts ELSE None

\* the comparison of line 472 made strict
check_if_data_needs_update_Strict(interval_hours, scan_ok) ==
    LET latest_timestamp == get_latest_ingestion_timestamp(scan_ok)
        needs_update == (clock - latest_timestamp) > interval_hours
    IN  IF latest_timestamp = None THEN <<TRUE, None, None>>
        ELSE <<needs_update, latest_timestamp,
               IF ~needs_update THEN latest_timestamp + interval_hours ELSE None>>

\* ChromaVectorStore.check_if_data_needs_update:
\* <<needs_update, latest_timestamp, next_update_time>>
check_if_data_needs_update(interval_hours, scan_ok) ==
    LET latest_timestamp == get_latest_ingestion_timestamp(scan_ok)
        needs_update == (clock - latest_timestamp) >= interval_hours
    IN  IF latest_timestamp = None THEN <<TRUE, None, None>>
        ELSE <<needs_update, latest_timestamp,
               IF ~needs_update THEN latest_timestamp + interval_hours ELSE None>>

\* ------------------------------------------------------------------ status
InitStatus ==
    [is_running |-> FALSE, current_operation |-> "None", progress |-> "None",
     urls_processed |-> <<>>, urls_total |-> 0, error |-> "None"]

\* dict.update(kw) on a dict whose keys include those of kw
Upd(r, kw) == [f \in DOMAIN r |-> IF f \in DOMAIN kw THEN kw[f] ELSE r[f]]

\* ScheduledScraper.update_status: cls._status.update(kwargs)
update_status(s, kw) == Upd(s, kw)

\* ScheduledScraper.reset_status
reset_status == InitStatus

\* ScheduledScraper.get_status
get_status == status

\* ------------------------------------------------------------ configuration
\* scraper_config.json as load_config returns it; "urls" holds the url of
\* every item that has one
Configs ==
    { [enabled |-> TRUE, interval_type |-> "hourly", interval_hours |-> h,
       interval_days |-> 1, auto_ingest_after_scrape |-> a,
       urls |-> [k \in 1..n |-> Url(k)]] :
        h \in 1..MaxInterval, a \in BOOLEAN, n \in 0..MaxUrls }

HoursPerDay == 24

\* the interval of should_run_pipeline, in hours
interval_hours_of(c) ==
    IF c.interval_type = "daily" THEN c.interval_days * HoursPerDay
    ELSE c.interval_hours

\* ScheduledScraper.calculate_next_run
calculate_next_run ==
    IF ~cfg.enabled THEN None
    ELSE IF cfg.interval_type = "hourly" THEN clock + cfg.interval_hours
    ELSE IF cfg.interval_type = "daily" THEN clock + cfg.interval_days * HoursPerDay
    ELSE clock + 1

\* a freshness check that reports fresh data when the store cannot be opened
should_run_pipeline_FreshOnFailure(store_outcome) ==
    IF store_outcome = "ctor_fail" THEN <<FALSE, None, None>>
    ELSE check_if_data_needs_update(interval_hours_of(cfg), store_outcome = "ok")

\* ScheduledScraper.should_run_pipeline; store_outcome = "ctor_fail": the
\* ChromaVectorStore constructor raised; "scan_fail": collection.get raised
should_run_pipeline(store_outcome) ==
    IF store_outcome = "ctor_fail" THEN <<TRUE, None, None>>
    ELSE check_if_data_needs_update(interval_hours_of(cfg), store_outcome = "ok")

StoreOutcomes == {"ok", "ctor_fail", "scan_fail"}

\* ------------------------------------------------------- local variables
LocInit ==
    [op |-> "none", force |-> FALSE, check_new_urls |-> FALSE,
     caller |-> "none", new_urls |-> <<>>, urls_given |-> FALSE,
     urls_to_process |-> <<>>, i |-> 1, results |-> <<>>,
     scraping_result |-> "None", ingestion_result |-> "None",
     should_run_called |-> FALSE, ingest_called |-> FALSE,
     fresh_result |-> "None", detect_failed |-> FALSE, skipped |-> FALSE,
     raised |-> "None", at_call |-> <<>>, in_start |-> FALSE,
     detect_outcome |-> "None", fresh_outcome |-> "None"]

\* the local variables of a call that begins now; at_call remembers the store
\* and the data directory as they are at the call
NewLoc(kind, f, c) ==
    Upd(LocInit, [op |-> kind, force |-> f, check_new_urls |-> c,
                  at_call |-> <<store_urls, latest_ts, disk>>])

LpInit ==
    [new_urls |-> <<>>, next_update_time |-> None, cycle |-> "none",
     sleep_until |-> None, stops |-> 0]

SetLoc(t, kw) == loc' = [loc EXCEPT ![t] = Upd(loc[t], kw)]

Goto(t, p) == pc' = [pc EXCEPT ![t] = p]

\* a finished operation holds its result at "ret" until its caller has it
Return(t) == "ret"

\* number of results with status "success" (run_scraping, line 168)
successful(results) ==
    Cardinality({k \in 1..Len(results) : results[k].status = "success"})

\* the freshness check made whenever force is false, new URLs or not
NeedsFreshnessCheck_IgnoringNewUrls(force, new_urls) == ~force

\* run_full_pipeline, line 430: the freshness check is made
NeedsFreshnessCheck(force, new_urls) == ~force /\ new_urls = <<>>

\* run_full_pipeline, lines 479-481: run_ingestion is called
ShouldIngest(auto_ingest, n_successful, new_urls) ==
    auto_ingest /\ (n_successful > 0 \/ new_urls # <<>>)

\* run_full_pipeline, line 471: urls_to_scrape (given, list)
UrlsToScrape(new_urls) ==
    IF new_urls # <<>> THEN <<TRUE, new_urls>> ELSE <<FALSE, <<>>>>

\* an exception of class kind leaves the operation of thread t: scheduler_loop
\* catches Exception (line 593) and sleeps; start() catches Exception (line
\* 662) and goes on; a SystemExit, or any exception in a thread without
\* handler, ends the thread
Raise(t, kind) ==
    IF t = "loop" /\ kind = "Exception"
    THEN /\ Goto(t, "l_cooldown")
         /\ lp' = [lp EXCEPT !.sleep_until = clock + Cooldown, !.cycle = "error"]
         /\ SetLoc(t, [raised |-> kind])
    ELSE IF loc[t].in_start /\ kind = "Exception"
    THEN /\ Goto(t, "st_launch")
         /\ SetLoc(t, [raised |-> kind])
         /\ UNCHANGED lp
    ELSE /\ Goto(t, "dead")
         /\ SetLoc(t, [raised |-> kind])
         /\ lp' = IF t = "loop" THEN [lp EXCEPT !.cycle = "error"] ELSE lp

\* ----------------------------------------------------- run_full_pipeline
\* A caller invokes one public operation: run_full_pipeline(force,
\* check_new_urls), run_scraping() or run_ingestion() (trigger_scraping of
\* api/main.py, main --once, run_once), each time in a thread of its own.
Call(t, kind, f, c) ==
    /\ pc[t] \in {"idle", "dead"}
    /\ loc' = [loc EXCEPT ![t] = NewLoc(kind, f, c)]
    /\ Goto(t, CASE kind = "pipeline" -> "p_reset"
                 [] kind = "scrape" -> "s_begin"
                 [] OTHER -> "i_begin")
    /\ UNCHANGED aux
    /\ UNCHANGED <<cfg, status, store_urls, latest_ts, disk, clock, lp, running, next_run>>

OpStart(t) ==
    \E kind \in {"pipeline", "scrape", "ingest"}, f \in BOOLEAN, c \in BOOLEAN :
        /\ kind # "pipeline" => (~f /\ ~c)
        /\ Call(t, kind, f, c)

\* trigger_scraping (api/main.py lines 570-618): a new ScheduledScraper and a
\* new thread on every request, which runs run_scraping(), run_ingestion() or
\* run_full_pipeline() with its default arguments
trigger_scraping(t) ==
    \E kind \in {"pipeline", "scrape", "ingest"} :
        Call(t, kind, FALSE, kind = "pipeline")

\* lines 400-401: self.reset_status()
P_Reset(t) ==
    /\ pc[t] = "p_reset"
    /\ status' = reset_status
    /\ Goto(t, "p_start")
    /\ UNCHANGED aux
    /\ UNCHANGED <<cfg, store_urls, latest_ts, disk, clock, loc, lp, running, next_run>>

\* lines 402-412: update_status(is_running=True, ...), then the novelty check
\* if it is enabled
P_Start(t) ==
    /\ pc[t] = "p_start"
    /\ status' = update_status(status, [is_running |-> TRUE,
                     current_operation |-> "pipeline", progress |-> "starting"])
    /\ IF loc[t].check_new_urls
       THEN /\ SetLoc(t, [caller |-> "pipeline"])
            /\ Goto(t, "d_begin")
       ELSE /\ UNCHANGED loc
            /\ Goto(t, IF NeedsFreshnessCheck(loc[t].force, <<>>)
                       THEN "p_fresh" ELSE "s_begin")
    /\ UNCHANGED aux
    /\ UNCHANGED <<cfg, store_urls, latest_ts, disk, clock, lp, running, next_run>>

\* detect_new_urls, lines 325-332
D_Begin(t) ==
    /\ pc[t] = "d_begin"
    /\ status' = update_status(status, [is_running |-> TRUE,
                     current_operation |-> "detection",
                     progress |-> "detecting_new_urls",
                     urls_processed |-> <<>>, urls_total |-> 0])
    /\ Goto(t, "d_scan")
    /\ UNCHANGED aux
    /\ UNCHANGED <<cfg, store_urls, latest_ts, disk, clock, loc, lp, running, next_run>>

\* the list detect_new_urls returns (lines 334-384)
detect_new_urls(store_outcome) ==
    IF store_outcome = "ctor_fail" THEN cfg.urls
    ELSE IF cfg.urls = <<>> THEN <<>>
    ELSE find_new_urls(cfg.urls, store_outcome = "ok")

\* the status update detect_new_urls ends with
DetectStatus(store_outcome, new_urls) ==
    IF store_outcome = "ctor_fail"
    THEN update_status(status, [error |-> "detect_error"])
    ELSE IF new_urls # <<>>
    THEN update_status(status, [urls_total |-> Len(new_urls)])
    ELSE update_status(status, [is_running |-> FALSE,
                                current_operation |-> "None", progress |-> "None"])

\* run_full_pipeline, lines 415-427: urls_total is published once more
AfterDetection(s, new_urls) ==
    IF new_urls # <<>> THEN update_status(s, [urls_total |-> Len(new_urls)]) ELSE s

\* detect_new_urls, lines 334-384, and what its caller does with the list:
\* run_full_pipeline lines 413-430 and 471, scheduler_loop lines 562-574
D_Scan(t) ==
    /\ pc[t] = "d_scan"
    /\ \E store_outcome \in StoreOutcomes :
          LET new_urls == detect_new_urls(store_outcome)
          IN  /\ IF loc[t].caller = "pipeline"
                 THEN /\ status' = AfterDetection(DetectStatus(store_outcome, new_urls),
                                                  new_urls)
                      /\ SetLoc(t, [new_urls |-> new_urls,
                                    detect_failed |-> store_outcome = "ctor_fail",
                                    detect_outcome |-> store_outcome])
                      /\ Goto(t, IF NeedsFreshnessCheck(loc[t].force, new_urls)
                                 THEN "p_fresh" ELSE "s_begin")
                      /\ UNCHANGED lp
                 ELSE /\ status' = DetectStatus(store_outcome, new_urls)
                      /\ lp' = [lp EXCEPT !.new_urls = new_urls,
                                          !.cycle = IF new_urls # <<>> THEN "new_urls"
                                                    ELSE "no_new_urls"]
                      /\ IF new_urls # <<>>
                         THEN /\ loc' = [loc EXCEPT ![t] = NewLoc("pipeline", TRUE, TRUE)]
                              /\ Goto(t, "p_reset")
                         ELSE /\ UNCHANGED loc
                              /\ Goto(t, "l_fresh")
    /\ UNCHANGED aux
    /\ UNCHANGED <<cfg, store_urls, latest_ts, disk, clock, running, next_run>>

\* run_full_pipeline, line 433: the run is skipped
SkipsPipeline(should_run) == ~should_run

\* lines 430-461: the freshness check of run_full_pipeline
P_Fresh(t) ==
    /\ pc[t] = "p_fresh"
    /\ \E store_outcome \in StoreOutcomes :
          LET r == should_run_pipeline(store_outcome)
              fresh == IF r[1] THEN "stale" ELSE "fresh"
          IN  IF SkipsPipeline(r[1])
              THEN /\ status' = update_status(status, [is_running |-> FALSE,
                                   current_operation |-> "None", progress |-> "None"])
                   /\ SetLoc(t, [should_run_called |-> TRUE, fresh_result |-> fresh,
                                 skipped |-> TRUE, scraping_result |-> "skipped",
                                 ingestion_result |-> "skipped",
                                 fresh_outcome |-> store_outcome])
                   /\ Goto(t, Return(t))
              ELSE /\ UNCHANGED status
                   /\ SetLoc(t, [should_run_called |-> TRUE, fresh_result |-> fresh,
                                 fresh_outcome |-> store_outcome])
                   /\ Goto(t, "s_begin")
    /\ UNCHANGED aux
    /\ UNCHANGED <<cfg, store_urls, latest_ts, disk, clock, lp, running, next_run>>

\* ----------------------------------------------------------- run_scraping
\* lines 91-99: the opening update_status; the argument urls_to_scrape is
\* that of line 472 inside run_full_pipeline and None in a direct call
S_Begin(t) ==
    /\ pc[t] = "s_begin"
    /\ status' = update_status(status, [is_running |-> TRUE,
                     current_operation |-> "scraping", progress |-> "scraping_urls",
                     urls_processed |-> <<>>, error |-> "None"])
    /\ LET a == IF loc[t].op = "pipeline" THEN UrlsToScrape(loc[t].new_urls)
                ELSE <<FALSE, <<>>>>
       IN  SetLoc(t, [urls_given |-> a[1], urls_to_process |-> a[2]])
    /\ Goto(t, "s_init")
    /\ UNCHANGED aux
    /\ UNCHANGED <<cfg, store_urls, latest_ts, disk, clock, lp, running, next_run>>

\* the URLs run_scraping processes (lines 117-123)
urls_to_process_of(urls_given, urls_to_scrape) ==
    IF urls_given THEN urls_to_scrape ELSE cfg.urls

\* where run_scraping returns to: run_full_pipeline lines 474-492, or its caller
AfterScraping(t, results) ==
    IF loc[t].op = "pipeline"
    THEN (IF ShouldIngest(cfg.auto_ingest_after_scrape, successful(results),
                          loc[t].new_urls)
          THEN "i_begin" ELSE "p_final")
    ELSE Return(t)

\* lines 105-138: GrowwScraper(...) is constructed (it may raise), the URL list
\* is determined and urls_total is published
S_Init(t) ==
    /\ pc[t] = "s_init"
    /\ \E init_ok \in BOOLEAN :
          IF ~init_ok
          THEN /\ Raise(t, "Exception")
               /\ UNCHANGED status
          ELSE LET urls == urls_to_process_of(loc[t].urls_given, loc[t].urls_to_process)
               IN  /\ UNCHANGED lp
                   /\ IF urls = <<>>
                      THEN /\ status' = update_status(status, [is_running |-> FALSE,
                                   current_operation |-> "None", progress |-> "None"])
                           /\ SetLoc(t, [urls_to_process |-> urls,
                                         scraping_result |-> "skipped"])
                           /\ Goto(t, AfterScraping(t, <<>>))
                      ELSE /\ status' = update_status(status, [urls_total |-> Len(urls)])
                           /\ SetLoc(t, [urls_to_process |-> urls, i |-> 1,
                                         results |-> <<>>])
                           /\ Goto(t, "s_pre")
    /\ UNCHANGED aux
    /\ UNCHANGED <<cfg, store_urls, latest_ts, disk, clock, running, next_run>>

\* lines 142-151: the loop head publishes the outcomes so far
S_Pre(t) ==
    /\ pc[t] = "s_pre"
    /\ status' = update_status(status, [urls_processed |-> loc[t].results])
    /\ Goto(t, "s_scrape")
    /\ UNCHANGED aux
    /\ UNCHANGED <<cfg, store_urls, latest_ts, disk, clock, loc, lp, running, next_run>>

ScrapeOutcomes == {"success", "failed", "error"}

\* a URL whose scrape raised leaves no result
AppendResult_DropsErrors(results, url, outcome) ==
    IF outcome = "error" THEN results
    ELSE Append(results, [url |-> url, status |-> outcome])

\* the results list after scraper.scrape(url) ended with outcome (lines 153-166)
AppendResult(results, url, outcome) ==
    Append(results, [url |-> url, status |-> outcome])

\* the index of the URL the loop of line 142 takes next
NextIndex(i) == i + 1

\* lines 153-166: scraper.scrape(url) returns a file, returns nothing or raises
S_Scrape(t) ==
    /\ pc[t] = "s_scrape"
    /\ \E outcome \in ScrapeOutcomes :
          LET url == loc[t].urls_to_process[loc[t].i]
          IN  /\ disk' = IF outcome = "success" THEN disk \cup {url} ELSE disk
              /\ SetLoc(t, [results |-> AppendResult(loc[t].results, url, outcome),
                            i |-> NextIndex(loc[t].i)])
              /\ Goto(t, IF NextIndex(loc[t].i) > Len(loc[t].urls_to_process)
                         THEN "s_end" ELSE "s_pre")
    /\ UNCHANGED aux
    /\ UNCHANGED <<cfg, status, store_urls, latest_ts, clock, lp, running, next_run>>

\* lines 168-185: the closing update_status and the result
S_End(t) ==
    /\ pc[t] = "s_end"
    /\ status' = update_status(status, [progress |-> "scraping_completed",
                     urls_processed |-> loc[t].results])
    /\ SetLoc(t, [scraping_result |-> "completed"])
    /\ Goto(t, AfterScraping(t, loc[t].results))
    /\ UNCHANGED aux
    /\ UNCHANGED <<cfg, store_urls, latest_ts, disk, clock, lp, running, next_run>>

\* ---------------------------------------------------------- run_ingestion
\* lines 194-200: the opening update_status
I_Begin(t) ==
    /\ pc[t] = "i_begin"
    /\ status' = update_status(status, [is_running |-> TRUE,
                     current_operation |-> "ingestion", progress |-> "ingesting_data"])
    /\ SetLoc(t, [ingest_called |-> TRUE])
    /\ Goto(t, "i_run")
    /\ UNCHANGED aux
    /\ UNCHANGED <<cfg, store_urls, latest_ts, disk, clock, lp, running, next_run>>

\* ingest_data.main: "ok": every document of the data directory is upserted;
\* "fail_early": loading, chunking or the store constructor raised;
\* "fail_late": upsert_documents raised after it had refreshed the
\* ingestion_timestamp of the chunks that already exist.  main catches the
\* exception and calls sys.exit(1) (ingest_data.py lines 59-63).
IngestOutcomes == {"ok", "fail_early", "fail_late"}

\* the collection's source URLs after ingest_data.main ended with outcome
StoreUrlsAfter(outcome) == IF outcome = "ok" THEN store_urls \cup disk ELSE store_urls

\* the collection's newest ingestion_timestamp after ingest_data.main
LatestAfter(outcome) ==
    CASE outcome = "ok" -> clock
      [] outcome = "fail_late" /\ store_urls \cap disk # {} -> clock
      [] OTHER -> latest_ts

AfterIngestion(t) == IF loc[t].op = "pipeline" THEN "p_final" ELSE Return(t)

\* lines 206-282: the data directory is listed (fs_ok = FALSE: that raises an
\* OSError, which the except branch of line 264 records), then ingest_data()
I_Run(t) ==
    /\ pc[t] = "i_run"
    /\ \E fs_ok \in BOOLEAN, outcome \in IngestOutcomes :
          IF ~fs_ok
          THEN /\ outcome = "ok"
               /\ status' = update_status(status, [is_running |-> FALSE,
                                current_operation |-> "None", progress |-> "None",
                                error |-> "ingest_error"])
               /\ SetLoc(t, [ingestion_result |-> "error"])
               /\ Goto(t, AfterIngestion(t))
               /\ UNCHANGED <<store_urls, latest_ts, lp>>
          ELSE IF disk = {}
          THEN /\ outcome = "ok"
               /\ status' = update_status(status, [is_running |-> FALSE,
                                current_operation |-> "None", progress |-> "None"])
               /\ SetLoc(t, [ingestion_result |-> "skipped"])
               /\ Goto(t, AfterIngestion(t))
               /\ UNCHANGED <<store_urls, latest_ts, lp>>
          ELSE /\ store_urls' = StoreUrlsAfter(outcome)
               /\ latest_ts' = LatestAfter(outcome)
               /\ IF outcome = "ok"
                  THEN /\ status' = update_status(status, [is_running |-> FALSE,
                                       current_operation |-> "None",
                                       progress |-> "completed"])
                       /\ SetLoc(t, [ingestion_result |-> "success"])
                       /\ Goto(t, AfterIngestion(t))
                       /\ UNCHANGED lp
                  ELSE /\ Raise(t, "SystemExit")
                       /\ UNCHANGED status
    /\ UNCHANGED aux
    /\ UNCHANGED <<cfg, disk, clock, running, next_run>>

\* run_full_pipeline, lines 494-508: the final update_status and the result
P_Final(t) ==
    /\ pc[t] = "p_final"
    /\ status' = update_status(status, [is_running |-> FALSE,
                     current_operation |-> "None", progress |-> "completed"])
    /\ Goto(t, Return(t))
    /\ UNCHANGED aux
    /\ UNCHANGED <<cfg, store_urls, latest_ts, disk, clock, loc, lp, running, next_run>>

\* the operation returns: its local variables are gone, and the caller
\* (run_operation of trigger_scraping, scheduler_loop) goes on
Ret(t) ==
    /\ pc[t] = "ret"
    /\ loc' = [loc EXCEPT ![t] = LocInit]
    /\ Goto(t, IF t = "loop" THEN "l_top"
               ELSE IF loc[t].in_start THEN "st_launch" ELSE "idle")
    /\ UNCHANGED aux
    /\ UNCHANGED <<cfg, status, store_urls, latest_ts, disk, clock, lp, running, next_run>>

\* one step of an operation executed by thread t
Pipeline(t) ==
    \/ P_Reset(t) \/ P_Start(t) \/ D_Begin(t) \/ D_Scan(t)
    \/ S_Begin(t) \/ S_Init(t) \/ S_Pre(t) \/ S_Scrape(t) \/ S_End(t)
    \/ I_Begin(t) \/ I_Run(t) \/ P_Final(t) \/ Ret(t)

\* ------------------------------------------------------------------- time
\* the clock stops at MaxClock, but not before a cooldown that began is over
Tick ==
    /\ clock < MaxClock \/ (pc # Idle /\ pc["loop"] = "l_cooldown" /\ clock < lp.sleep_until)
    /\ clock' = clock + 1
    /\ UNCHANGED aux
    /\ UNCHANGED <<cfg, status, store_urls, latest_ts, disk, pc, loc, lp, running, next_run>>

\* the states of the store at start-up: some of the configured URLs, or the
\* first one as "A/", ingested at some time up to now
InitStores ==
    { {Url(k) : k \in S} : S \in SUBSET (1..MaxUrls) } \cup { {<<"A", "/">>} }

InitCommon ==
    /\ cfg \in Configs
    /\ status = InitStatus
    /\ store_urls \in InitStores
    /\ clock \in 0..1
    /\ latest_ts \in (IF store_urls = {} THEN {None} ELSE 0..clock)
    /\ disk = {u \in store_urls : u \in {Url(k) : k \in 1..MaxUrls}}
    /\ loc = [t \in Threads |-> LocInit]
    /\ lp = LpInit
    /\ next_run = None
    /\ fq = Idle /\ emb = Idle /\ col = Idle /\ st = Idle
    /\ fr = Idle /\ rag = Idle /\ ss = Idle /\ sched = Idle

\* ------------------------------------ one caller, one operation at a time
InitRun ==
    /\ InitCommon
    /\ pc = [t \in Threads |-> IF t = "op" THEN "idle" ELSE "off"]
    /\ running = FALSE

\* No operation of a single caller waits for the clock: the time of the calls
\* is any of the initial ones.
NextRun == OpStart("op") \/ Pipeline("op") \/ P_Fresh("op")

SpecRun == InitRun /\ [][NextRun]_vars

\* --------------------------------------------------------- scheduler_loop
\* the loop never looks at self.running
KeepsLooping_Always(r) == TRUE

\* the test of self.running in lines 543, 555 and 558
KeepsLooping(r) == r

\* lines 543-552: the loop condition and calculate_next_run
L_Top ==
    /\ pc["loop"] = "l_top"
    /\ IF ~KeepsLooping(running)
       THEN /\ Goto("loop", "exited")
            /\ UNCHANGED next_run
       ELSE /\ next_run' = calculate_next_run
            /\ Goto("loop", IF calculate_next_run = None THEN "exited" ELSE "l_wait")
    /\ UNCHANGED aux
    /\ UNCHANGED <<cfg, status, store_urls, latest_ts, disk, clock, loc, lp, running>>

\* lines 554-562: sleep in steps until next_run or until running is false, then
\* call detect_new_urls
L_Wait ==
    /\ pc["loop"] = "l_wait"
    /\ ~KeepsLooping(running) \/ clock >= next_run
    /\ IF ~KeepsLooping(running)
       THEN /\ Goto("loop", "exited")
            /\ UNCHANGED <<loc, lp>>
       ELSE /\ Goto("loop", "d_begin")
            /\ SetLoc("loop", [caller |-> "loop"])
            /\ lp' = [lp EXCEPT !.cycle = "awake"]
    /\ UNCHANGED aux
    /\ UNCHANGED <<cfg, status, store_urls, latest_ts, disk, clock, running, next_run>>

\* self.next_run after a cycle that found the data fresh (lines 589-591)
Retarget(next_update_time) ==
    IF next_update_time # None THEN next_update_time ELSE next_run

\* lines 572-591: no new URL; the freshness check decides
L_Fresh ==
    /\ pc["loop"] = "l_fresh"
    /\ \E store_outcome \in StoreOutcomes :
          LET r == should_run_pipeline(store_outcome)
          IN  IF r[1]
              THEN /\ loc' = [loc EXCEPT !["loop"] = NewLoc("pipeline", TRUE, FALSE)]
                   /\ lp' = [lp EXCEPT !.cycle = "stale", !.next_update_time = r[3]]
                   /\ Goto("loop", "p_reset")
                   /\ UNCHANGED next_run
              ELSE /\ next_run' = Retarget(r[3])
                   /\ lp' = [lp EXCEPT !.cycle = "fresh", !.next_update_time = r[3]]
                   /\ Goto("loop", "l_top")
                   /\ UNCHANGED loc
    /\ UNCHANGED aux
    /\ UNCHANGED <<cfg, status, store_urls, latest_ts, disk, clock, running>>

\* lines 593-596: time.sleep(300) is over
L_Cooldown ==
    /\ pc["loop"] = "l_cooldown"
    /\ clock >= lp.sleep_until
    /\ Goto("loop", "l_top")
    /\ UNCHANGED aux
    /\ UNCHANGED <<cfg, status, store_urls, latest_ts, disk, clock, loc, lp, running, next_run>>

\* stop(), line 677
Stop ==
    /\ running
    /\ running' = FALSE
    /\ UNCHANGED aux
    /\ UNCHANGED <<cfg, status, store_urls, latest_ts, disk, clock, pc, loc, lp, next_run>>

Loop == L_Top \/ L_Wait \/ L_Fresh \/ L_Cooldown

\* ------------------------------------------------- the scheduler, running
InitSched ==
    /\ InitCommon
    /\ pc = [t \in Threads |-> IF t = "loop" THEN "l_top" ELSE "off"]
    /\ running = TRUE

NextSched == Loop \/ Pipeline("loop") \/ Tick \/ Stop

SpecSched == InitSched /\ [][NextSched]_vars

\* --------------------------- the scheduler and a manual trigger, together
InitConc ==
    /\ InitCommon
    /\ Len(cfg.urls) = 1
    /\ cfg.auto_ingest_after_scrape
    /\ cfg.interval_hours = MaxInterval
    /\ store_urls = {Url(1)}
    /\ clock = 0
    /\ pc = [t \in Threads |-> IF t = "loop" THEN "l_top" ELSE "idle"]
    /\ running = TRUE

NextConc ==
    \/ Loop \/ Pipeline("loop") \/ Tick
    \/ trigger_scraping("op") \/ Pipeline("op") \/ P_Fresh("op")

SpecConc == InitConc /\ [][NextConc]_vars

\* ------------------------------------------- start(), stop() and the loop
\* the configurations of the file, scheduling enabled or not
AnyConfigs == { [c EXCEPT !.enabled = e] : c \in Configs, e \in BOOLEAN }

\* check_if_data_exists: the store holds a document, or, when it holds none
\* or cannot be read, the data directory holds a JSON file; a check that
\* raises is logged and counts as nothing found
check_if_data_exists(store_ok, dir_ok) ==
    \/ store_ok /\ store_urls # {}
    \/ dir_ok /\ disk # {}

\* start(), lines 639-665: nothing is done when the scheduler runs already or
\* scheduling is disabled; without data the pipeline is called with
\* force=True, check_new_urls=False in the caller's thread. A loop thread that
\* is still alive is not started a second time in this model.
St_Call ==
    /\ pc["op"] = "idle"
    /\ pc["loop"] \in {"off", "exited", "dead"}
    /\ IF running \/ ~cfg.enabled
       THEN UNCHANGED <<pc, loc>>
       ELSE \E store_ok \in BOOLEAN, dir_ok \in BOOLEAN :
              IF check_if_data_exists(store_ok, dir_ok)
              THEN /\ loc' = [loc EXCEPT !["op"] = Upd(LocInit, [in_start |-> TRUE])]
                   /\ Goto("op", "st_launch")
              ELSE /\ loc' = [loc EXCEPT !["op"] =
                                 Upd(NewLoc("pipeline", TRUE, FALSE), [in_start |-> TRUE])]
                   /\ Goto("op", "p_reset")
    /\ UNCHANGED aux
    /\ UNCHANGED <<cfg, status, store_urls, latest_ts, disk, clock, lp, running, next_run>>

\* start(), lines 667-670: the flag is set and the loop thread begins
St_Launch ==
    /\ pc["op"] = "st_launch"
    /\ running' = TRUE
    /\ pc' = [pc EXCEPT !["op"] = "idle", !["loop"] = "l_top"]
    /\ loc' = [loc EXCEPT !["op"] = LocInit, !["loop"] = LocInit]
    /\ lp' = [LpInit EXCEPT !.stops = lp.stops]
    /\ UNCHANGED aux
    /\ UNCHANGED <<cfg, status, store_urls, latest_ts, disk, clock, next_run>>

\* the initial run of start(): run_full_pipeline without URL detection
InitialRun ==
    \/ P_Reset("op") \/ P_Start("op")
    \/ S_Begin("op") \/ S_Init("op") \/ S_Pre("op") \/ S_Scrape("op") \/ S_End("op")
    \/ I_Begin("op") \/ I_Run("op") \/ P_Final("op") \/ Ret("op")

\* stop() that inverts the flag
AfterStop_Toggle(r) == ~r

\* self.running after stop(), lines 674-677: false, whether it was set or not
AfterStop(r) == FALSE

\* stop(), lines 672-680, called by the owner of the scheduler; the join of
\* line 679 waits ten seconds at most and changes nothing. lp.stops counts the
\* calls.
stop ==
    /\ pc["op"] = "idle"
    /\ lp.stops < MaxStops
    /\ running' = AfterStop(running)
    /\ lp' = [lp EXCEPT !.stops = @ + 1]
    /\ UNCHANGED aux
    /\ UNCHANGED <<cfg, status, store_urls, latest_ts, disk, clock, pc, loc, next_run>>

\* the scheduler before start(), or scheduler_loop entered with the flag set,
\* whatever the configuration says
InitLife ==
    /\ cfg \in AnyConfigs
    /\ Len(cfg.urls) = 1
    /\ cfg.interval_hours = 1
    /\ cfg.auto_ingest_after_scrape
    /\ status = InitStatus
    /\ store_urls \in {{}, {Url(1)}}
    /\ clock = 0
    /\ latest_ts = (IF store_urls = {} THEN None ELSE 0)
    /\ disk \in SUBSET store_urls
    /\ loc = [t \in Threads |-> LocInit]
    /\ lp = LpInit
    /\ next_run = None
    /\ fq = Idle /\ emb = Idle /\ col = Idle /\ st = Idle
    /\ fr = Idle /\ rag = Idle /\ ss = Idle /\ sched = Idle
    /\ running \in BOOLEAN
    /\ pc = [t \in Threads |-> IF t = "op" THEN "idle"
                                ELSE IF running THEN "l_top" ELSE "off"]

NextLife ==
    \/ St_Call \/ St_Launch \/ InitialRun \/ stop
    \/ Loop \/ Pipeline("loop") \/ Tick

\* the loop thread is scheduled and time passes
SpecLife ==
    /\ InitLife /\ [][NextLife]_vars
    /\ WF_vars(Loop) /\ WF_vars(Pipeline("loop")) /\ WF_vars(Tick)

\* ------------------------------------------- one call of find_new_urls
\* every variable of the scheduler is out of use
PipeOff ==
    /\ cfg = Idle /\ status = Idle /\ latest_ts = None /\ disk = {}
    /\ clock = 0 /\ pc = Idle /\ loc = Idle /\ lp = Idle
    /\ running = FALSE /\ next_run = None

UpperLetters == <<"A", "B", "C", "D">>

\* spellings of the k-th URL: as it is, in upper case, with a trailing slash,
\* with surrounding whitespace
Variants(k) ==
    { Url(k), <<UpperLetters[k]>>, Url(k) \o <<"/">>, <<" ">> \o Url(k) \o <<" ">> }

\* strings that are empty once normalised
Blanks == { <<>>, <<"/">>, <<" ">> }

UrlPool == UNION {Variants(k) : k \in 1..MaxUrls} \cup Blanks

\* the source_url values of the stored chunks: at most two different ones
StoredSets == {{}} \cup { {x, y} : x \in UrlPool, y \in UrlPool }

\* the lists of at most n strings of S
SeqsUpTo(S, n) == UNION { [1..m -> S] : m \in 0..n }

InitFind ==
    /\ PipeOff
    /\ store_urls \in StoredSets
    /\ fq \in { [pc |-> "call", config_urls |-> c, scan_ok |-> TRUE, new_urls |-> <<>>] :
                 c \in SeqsUpTo(UrlPool, MaxCand) }
    /\ emb = Idle /\ col = Idle /\ st = Idle
    /\ fr = Idle /\ rag = Idle /\ ss = Idle /\ sched = Idle

\* vector_store.find_new_urls(config_urls); scan_ok = FALSE: collection.get
\* raises inside get_existing_urls
F_Call ==
    /\ fq.pc = "call"
    /\ \E scan_ok \in BOOLEAN :
          fq' = [fq EXCEPT !.pc = "done", !.scan_ok = scan_ok,
                           !.new_urls = find_new_urls(fq.config_urls, scan_ok)]
    /\ UNCHANGED <<pipe, emb, col, st, fr, rag, ss, sched>>

NextFind == F_Call

SpecFind == InitFind /\ [][NextFind]_vars

\* ------------------------------------ one call of _batch_embed_documents
\* the first wait of the backoff, in seconds (line 113)
BaseWait == 5

RECURSIVE Pow2(_)
Pow2(n) == IF n <= 0 THEN 1 ELSE 2 * Pow2(n - 1)

\* what self.embeddings.embed_documents(batch) does: it returns the vectors,
\* or raises an error whose message has or has not one of "quota", "429",
\* "resource" (quota) and one of "limit: 0", "free_tier_requests" (zero)
ProviderOutcomes ==
    {[ok |-> TRUE, quota |-> FALSE, zero |-> FALSE]} \cup
    {[ok |-> FALSE, quota |-> q, zero |-> z] : q \in BOOLEAN, z \in BOOLEAN}

\* line 100
IsQuotaError(e) == e.quota

\* a quota error is never taken for exhausted
IsQuotaExhausted_Never(e) == FALSE

\* line 102
IsQuotaExhausted(e) == e.zero

\* one retry fewer
RetryAllowed_OneFewer(retry_count, max_retries) == retry_count < max_retries

\* lines 81 and 111
RetryAllowed(retry_count, max_retries) == retry_count <= max_retries

\* line 113
wait_time(retry_count) == BaseWait * Pow2(retry_count - 1)

\* the call has not returned
NotReturned == <<None>>

\* the local variables of _batch_embed_documents(texts, batch_size, max_retries)
\* on entry, with n texts; fn and given: the function that calls it and the
\* batch_size that function was given
EmbInit(n, b, m) ==
    [pc |-> "batch", n_texts |-> n, batch_size |-> b, max_retries |-> m,
     i |-> 0, retry_count |-> 0, success |-> FALSE, api_call_count |-> 0,
     all_embeddings |-> <<>>, returned |-> NotReturned,
     batch_calls |-> 0, waits |-> <<>>, errors |-> <<>>, batches |-> 0,
     largest_call |-> 0, delays |-> 0, fn |-> "None", given |-> b]

InitEmbed ==
    /\ PipeOff /\ store_urls = {}
    /\ emb \in { EmbInit(n, b, m) :
                    n \in 0..MaxTexts, b \in 1..MaxBatch, m \in 0..MaxRetries }
    /\ fq = Idle /\ col = Idle /\ st = Idle
    /\ fr = Idle /\ rag = Idle /\ ss = Idle /\ sched = Idle

\* lines 74-79 and 129-130: the next batch, or the return of all_embeddings
E_Batch ==
    /\ emb.pc = "batch"
    /\ IF emb.i < emb.n_texts
       THEN emb' = [emb EXCEPT !.pc = "try", !.retry_count = 0, !.success = FALSE,
                               !.batch_calls = 0, !.waits = <<>>, !.errors = <<>>,
                               !.batches = @ + 1]
       ELSE emb' = [emb EXCEPT !.pc = "done", !.returned = emb.all_embeddings]
    /\ UNCHANGED <<pipe, fq, col, st, fr, rag, ss, sched>>

\* the number of texts of the batch that starts at i (line 75)
BatchLen(i, batch_size, n_texts) ==
    IF i + batch_size <= n_texts THEN batch_size ELSE n_texts - i

\* self.embeddings.embed_documents(batch): the vectors of the texts number
\* i + 1 .. i + n of the call, a text's vector being named by its number
embed_documents(i, n) == [k \in 1..n |-> i + k]

\* line 95: time.sleep(delay) follows the batch that starts at i
SleepsAfter(i, batch_size, n_texts) == i + batch_size < n_texts

\* lines 81-124: one turn of the while loop, one provider call
E_Try ==
    /\ emb.pc = "try"
    /\ RetryAllowed(emb.retry_count, emb.max_retries) /\ ~emb.success
    /\ \E e \in ProviderOutcomes :
          LET batch == BatchLen(emb.i, emb.batch_size, emb.n_texts)
              called == [emb EXCEPT !.api_call_count = @ + 1, !.batch_calls = @ + 1,
                                    !.errors = IF e.ok THEN @ ELSE Append(@, e),
                                    !.largest_call = IF batch > @ THEN batch ELSE @]
              retry_count == emb.retry_count + 1
          IN  IF e.ok
              THEN emb' = [called EXCEPT
                              !.all_embeddings = @ \o embed_documents(emb.i, batch),
                              !.delays = IF SleepsAfter(emb.i, emb.batch_size, emb.n_texts)
                                         THEN @ + 1 ELSE @,
                              !.success = TRUE, !.i = @ + emb.batch_size,
                              !.pc = "batch"]
              ELSE IF IsQuotaError(e) /\ ~IsQuotaExhausted(e)
                      /\ RetryAllowed(retry_count, emb.max_retries)
              THEN emb' = [called EXCEPT !.retry_count = retry_count,
                                         !.waits = Append(@, wait_time(retry_count))]
              ELSE emb' = [called EXCEPT
                              !.retry_count = IF IsQuotaError(e) /\ ~IsQuotaExhausted(e)
                                              THEN retry_count ELSE @,
                              !.pc = "raised"]
    /\ UNCHANGED <<pipe, fq, col, st, fr, rag, ss, sched>>

NextEmbed == E_Batch \/ E_Try

SpecEmbed == InitEmbed /\ [][NextEmbed]_vars

\* ------------------------------------------- calls of upsert_documents
\* (source_file, chunk_index) of the chunks the chunker can hand over
ChunkKeys == { <<"f1", 0>>, <<"f1", 1>>, <<"f2", 0>> }

\* page_content of a chunk, before and after its file was scraped again; the
\* file_mod_time of its metadata changes with it
Texts == {"t1", "t2"}

\* a Document: page_content, and the metadata that ChromaDB can hold
Doc(key, text) ==
    [page_content |-> text,
     metadata |-> [source_file |-> key[1], chunk_index |-> key[2],
                   file_mod_time |-> text]]

\* the lists of at most MaxDocs chunks, no (source_file, chunk_index) twice
DocLists ==
    { d \in SeqsUpTo({Doc(k, t) : k \in ChunkKeys, t \in Texts}, MaxDocs) :
        \A i \in 1..Len(d), j \in 1..Len(d) :
            (i # j) => <<d[i].metadata.source_file, d[i].metadata.chunk_index>>
                       # <<d[j].metadata.source_file, d[j].metadata.chunk_index>> }

\* lines 187-188: f"{source_file}_{chunk_index}_{i}", i the place in the list
MakeId(doc, i) == <<doc.metadata.source_file, doc.metadata.chunk_index, i>>

\* self.embeddings.embed_documents: the vector of a text
Vec(text) == <<"vec", text>>

\* existing chunks are embedded again
ExistingIds_None(skip_existing, check_ok, recs) == {}

\* lines 190-207: the ids taken for existing; check_ok = FALSE: collection.count
\* or collection.get raised and the except branch goes on without skipping
ExistingIds(skip_existing, check_ok, recs) ==
    IF skip_existing /\ check_ok THEN DOMAIN recs ELSE {}

\* the timestamp of an existing chunk is left as it is
RefreshTimestamp_Keep(metadata, ingestion_timestamp) == metadata

\* lines 231-233
RefreshTimestamp(metadata, ingestion_timestamp) ==
    [metadata EXCEPT !.ingestion_timestamp = ingestion_timestamp]

\* lines 258-265: the metadata written with a new chunk
CleanMetadata(doc, ingestion_timestamp) ==
    [source_file |-> doc.metadata.source_file,
     chunk_index |-> doc.metadata.chunk_index,
     file_mod_time |-> doc.metadata.file_mod_time,
     ingestion_timestamp |-> ingestion_timestamp]

\* f with the pairs of g added or overwritten
Overwrite(f, g) ==
    [x \in DOMAIN f \cup DOMAIN g |-> IF x \in DOMAIN g THEN g[x] ELSE f[x]]

NoCall == [done |-> FALSE]

ColInit == [pc |-> "first", recs |-> <<>>, now |-> 1, first |-> NoCall, last |-> NoCall]

InitUpsert ==
    /\ PipeOff /\ store_urls = {}
    /\ col = ColInit
    /\ fq = Idle /\ emb = Idle /\ st = Idle
    /\ fr = Idle /\ rag = Idle /\ ss = Idle /\ sched = Idle

\* upsert_documents(documents, skip_existing); embed_ok = FALSE:
\* _batch_embed_documents raised
upsert_documents(documents, skip_existing, check_ok, embed_ok) ==
    LET ids == [i \in 1..Len(documents) |-> MakeId(documents[i], i - 1)]
        existing_ids == ExistingIds(skip_existing, check_ok, col.recs)
        new == {i \in 1..Len(documents) : ids[i] \notin existing_ids}
        existing_ids_to_update == {ids[i] : i \in (1..Len(documents)) \ new}
        ingestion_timestamp == col.now
        updated == [x \in DOMAIN col.recs |->
                       IF x \in existing_ids_to_update
                       THEN [col.recs[x] EXCEPT
                               !.metadata = RefreshTimestamp(@, ingestion_timestamp)]
                       ELSE col.recs[x]]
        written == [x \in {ids[i] : i \in new} |->
                       LET i == CHOOSE i \in new : ids[i] = x
                       IN  [document |-> documents[i].page_content,
                            embedding |-> Vec(documents[i].page_content),
                            metadata |-> CleanMetadata(documents[i], ingestion_timestamp)]]
        raised == new # {} /\ ~embed_ok
    IN  [done |-> TRUE, documents |-> documents, skip_existing |-> skip_existing,
         check_ok |-> check_ok, before |-> col.recs,
         ingestion_timestamp |-> ingestion_timestamp,
         embedded |-> {ids[i] : i \in new},
         raised |-> raised,
         ids |-> IF raised THEN <<>> ELSE ids,
         after |-> IF documents = <<>> THEN col.recs
                   ELSE IF raised \/ new = {} THEN updated
                   ELSE Overwrite(updated, written)]

\* one call of upsert_documents, from line 183 to its return or its exception;
\* the next call reads a later datetime.now()
U_Call ==
    /\ col.pc \in {"first", "second"}
    /\ \E documents \in DocLists, skip_existing \in BOOLEAN,
          check_ok \in BOOLEAN, embed_ok \in BOOLEAN :
          LET call == upsert_documents(documents, skip_existing, check_ok, embed_ok)
          IN  col' = [pc |-> IF col.pc = "first" THEN "second" ELSE "end",
                      recs |-> call.after,
                      now |-> col.now + 1,
                      first |-> IF col.pc = "first" THEN call ELSE col.first,
                      last |-> call]
    /\ UNCHANGED <<pipe, fq, emb, st, fr, rag, ss, sched>>

NextUpsert == U_Call

SpecUpsert == InitUpsert /\ [][NextUpsert]_vars

\* ------------------------------- the status dict under a concurrent reader
\* ScheduledScraper._status as the class body builds it (lines 34-44): it has
\* no "last_updated" yet (None here)
ClassStatus ==
    [is_running |-> FALSE, progress |-> "None", last_updated |-> None]

\* the keyword arguments of the update_status calls of a run
StatusKwargs ==
    { [is_running |-> TRUE, progress |-> "starting"],
      [progress |-> "scraping_urls"],
      [is_running |-> FALSE, progress |-> "completed"] }

StInit ==
    [dict |-> ClassStatus, wpc |-> "idle", calls |-> 0, now |-> 1,
     completed |-> {ClassStatus}, snapshot |-> ClassStatus]

InitStatusRead ==
    /\ PipeOff /\ store_urls = {}
    /\ st = StInit
    /\ fq = Idle /\ emb = Idle /\ col = Idle
    /\ fr = Idle /\ rag = Idle /\ ss = Idle /\ sched = Idle

\* update_status, line 62: cls._status.update(kwargs)
W_Update ==
    /\ st.wpc = "idle" /\ st.calls < MaxStatusCalls
    /\ \E kw \in StatusKwargs :
          st' = [st EXCEPT !.dict = Upd(@, kw), !.wpc = "stamp", !.calls = @ + 1]
    /\ UNCHANGED <<pipe, fq, emb, col, fr, rag, ss, sched>>

\* update_status, line 63: cls._status["last_updated"] = datetime.now()
W_Stamp ==
    /\ st.wpc = "stamp"
    /\ LET d == [st.dict EXCEPT !.last_updated = st.now]
       IN  st' = [st EXCEPT !.dict = d, !.wpc = "idle", !.now = @ + 1,
                            !.completed = @ \cup {d}]
    /\ UNCHANGED <<pipe, fq, emb, col, fr, rag, ss, sched>>

\* reset_status, lines 68-79: cls._status is bound to a new dict
W_Reset ==
    /\ st.wpc = "idle" /\ st.calls < MaxStatusCalls
    /\ LET d == [is_running |-> FALSE, progress |-> "None", last_updated |-> st.now]
       IN  st' = [st EXCEPT !.dict = d, !.calls = @ + 1, !.now = @ + 1,
                            !.completed = @ \cup {d}]
    /\ UNCHANGED <<pipe, fq, emb, col, fr, rag, ss, sched>>

\* get_status, line 57, in the thread of a status request: cls._status.copy()
R_GetStatus ==
    /\ st' = [st EXCEPT !.snapshot = st.dict]
    /\ UNCHANGED <<pipe, fq, emb, col, fr, rag, ss, sched>>

NextStatusRead == W_Update \/ W_Stamp \/ W_Reset \/ R_GetStatus

SpecStatusRead == InitStatusRead /\ [][NextStatusRead]_vars

\* ------------------------------- one call of check_if_data_needs_update
\* the metadata of a chunk as far as the freshness check reads it:
\* ingestion_timestamp is the ISO string upsert_documents wrote (line 222), or
\* is missing (add_documents writes none); file_mod_time is the float of the
\* document loader, or is missing
Metadatas ==
    [ingestion_timestamp : {None} \cup (1..MaxTs), file_mod_time : {None} \cup (1..MaxTs)]

\* the loop of get_latest_ingestion_timestamp, lines 415-444, from chunk k on
RECURSIVE LatestFrom(_, _, _)
LatestFrom(metadatas, k, latest_timestamp) ==
    IF k > Len(metadatas) THEN latest_timestamp
    ELSE LET m == metadatas[k]
             a == IF m.ingestion_timestamp # None
                     /\ (latest_timestamp = None \/ m.ingestion_timestamp > latest_timestamp)
                  THEN m.ingestion_timestamp ELSE latest_timestamp
             b == IF m.file_mod_time # None /\ (a = None \/ m.file_mod_time > a)
                  THEN m.file_mod_time ELSE a
         IN  LatestFrom(metadatas, k + 1, b)

\* what the scan of the collection yields (lines 410-446)
LatestOf(metadatas) ==
    IF metadatas = <<>> THEN None ELSE LatestFrom(metadatas, 1, None)

InitFresh ==
    /\ cfg = Idle /\ status = Idle /\ disk = {} /\ store_urls = {}
    /\ pc = Idle /\ loc = Idle /\ lp = Idle
    /\ running = FALSE /\ next_run = None
    /\ fr \in { [metadatas |-> m, interval_hours |-> h, called |-> FALSE,
                 scan_ok |-> TRUE, result |-> <<>>] :
                 m \in SeqsUpTo(Metadatas, MaxMetas), h \in 1..MaxInterval }
    /\ latest_ts = LatestOf(fr.metadatas)
    /\ clock \in 0..(MaxTs + MaxInterval)
    /\ fq = Idle /\ emb = Idle /\ col = Idle /\ st = Idle
    /\ rag = Idle /\ ss = Idle /\ sched = Idle

\* vector_store.check_if_data_needs_update(interval_hours) at time clock;
\* scan_ok = FALSE: collection.get raises inside get_latest_ingestion_timestamp
Fr_Call ==
    /\ ~fr.called
    /\ \E scan_ok \in BOOLEAN :
          fr' = [fr EXCEPT !.called = TRUE, !.scan_ok = scan_ok,
                           !.result = check_if_data_needs_update(fr.interval_hours, scan_ok)]
    /\ UNCHANGED <<pipe, fq, emb, col, st, rag, ss, sched>>

NextFresh == Fr_Call

SpecFresh == InitFresh /\ [][NextFresh]_vars

\* ---------------- one caller, with blank entries in the configured URLs
\* the configured URLs may hold an entry of whitespace: detect_new_urls keeps
\* every entry that is not empty (line 345)
CandidatePool == {Url(1), <<" ">>}

InitDegrade ==
    /\ cfg \in { [c EXCEPT !.urls = u] : c \in Configs, u \in SeqsUpTo(CandidatePool, MaxCand) }
    /\ cfg.interval_hours = 1
    /\ status = InitStatus
    /\ store_urls \in {{}, {Url(1)}}
    /\ clock \in 0..1
    /\ latest_ts \in (IF store_urls = {} THEN {None} ELSE 0..clock)
    /\ disk = store_urls
    /\ loc = [t \in Threads |-> LocInit]
    /\ lp = LpInit
    /\ next_run = None
    /\ fq = Idle /\ emb = Idle /\ col = Idle /\ st = Idle
    /\ fr = Idle /\ rag = Idle /\ ss = Idle /\ sched = Idle
    /\ pc = [t \in Threads |-> IF t = "op" THEN "idle" ELSE "off"]
    /\ running = FALSE

NextDegrade == OpStart("op") \/ Pipeline("op") \/ P_Fresh("op")

SpecDegrade == InitDegrade /\ [][NextDegrade]_vars

\* ---------------------------------------------- strings, character by character
\* A string is the sequence of its characters. The strings of the model are
\* concatenations of a few tokens, so that a scheme or a top-level domain
\* takes one place of the bound and the functions still see its characters.
Chars(token) ==
    CASE token = "http://" -> <<"h", "t", "t", "p", ":", "/", "/">>
      [] token = "https://" -> <<"h", "t", "t", "p", "s", ":", "/", "/">>
      [] token = "com" -> <<"c", "o", "m">>
      [] OTHER -> <<token>>

RECURSIVE Expand(_)
Expand(tokens) ==
    IF tokens = <<>> THEN <<>> ELSE Chars(Head(tokens)) \o Expand(Tail(tokens))

UrlTokens == {"http://", "https://", "a", "com", ".", "/", "#", ":", " "}

Alpha == {"a", "c", "o", "m", "h", "t", "p", "s"}
Digits == {"0", "1", "2", "3", "4", "5", "6", "7", "8", "9"}
Alnum == Alpha \cup Digits

\* str.rstrip(chars)
RECURSIVE RStripSet(_, _)
RStripSet(s, chars) ==
    IF s # <<>> /\ s[Len(s)] \in chars
    THEN RStripSet(SubSeq(s, 1, Len(s) - 1), chars) ELSE s

\* str.strip()
StripWs(s) == RStripSet(LStrip(s), {" "})

\* str.startswith(prefix)
StartsWith(s, prefix) ==
    Len(s) >= Len(prefix) /\ SubSeq(s, 1, Len(prefix)) = prefix

\* the ends j of the matches of [a-zA-Z0-9]([a-zA-Z0-9-]{0,61}[a-zA-Z0-9])? that
\* begin at i (no string of the model reaches 63 characters)
LabelEnds(s, i) ==
    IF i > Len(s) \/ s[i] \notin Alnum THEN {}
    ELSE { j \in i..Len(s) :
             /\ s[j] \in Alnum
             /\ \A m \in i..j : s[m] \in Alnum \cup {"-"} }

\* the rest of the pattern of line 37 matches from i on, where a label begins:
\* label (\.label)* \.[a-zA-Z]{2,}
RECURSIVE DomainFrom(_, _)
DomainFrom(s, i) ==
    \E j \in LabelEnds(s, i) :
        /\ j + 1 <= Len(s) /\ s[j + 1] = "."
        /\ \/ (j + 3 <= Len(s) /\ s[j + 2] \in Alpha /\ s[j + 3] \in Alpha)
           \/ DomainFrom(s, j + 2)

\* re.match of the domain pattern (line 37): a prefix of s matches
LooksLikeDomain(s) == DomainFrom(s, 1)

\* the least position from i on whose character is in delims, or Len(s) + 1
RECURSIVE FindFirst(_, _, _)
FindFirst(s, i, delims) ==
    IF i > Len(s) \/ s[i] \in delims THEN i ELSE FindFirst(s, i + 1, delims)

HttpScheme == <<"h", "t", "t", "p">>
HttpsScheme == <<"h", "t", "t", "p", "s">>
SchemeSep == <<":", "/", "/">>

\* urllib.parse.urlparse on a string that begins with http:// or https://
\* (no string of the model has a ";" or a control character)
urlparse(url) ==
    LET scheme == IF StartsWith(url, HttpsScheme \o SchemeSep) THEN HttpsScheme
                  ELSE HttpScheme
        rest == SubSeq(url, Len(scheme) + 4, Len(url))
        n == FindFirst(rest, 1, {"/", "?", "#"})
        f == FindFirst(rest, 1, {"#"})
        q == FindFirst(SubSeq(rest, 1, f - 1), 1, {"?"})
    IN  [scheme |-> scheme,
         netloc |-> SubSeq(rest, 1, n - 1),
         path |-> SubSeq(rest, n, q - 1),
         query |-> SubSeq(rest, q + 1, f - 1),
         fragment |-> SubSeq(rest, f + 1, Len(rest))]

\* urllib.parse.urlunparse: an empty query or fragment leaves no "?" or "#"
urlunparse(p) ==
    p.scheme \o SchemeSep \o p.netloc \o p.path
      \o (IF p.query # <<>> THEN <<"?">> \o p.query ELSE <<>>)
      \o (IF p.fragment # <<>> THEN <<"#">> \o p.fragment ELSE <<>>)

\* the value None of normalize_url
NoUrl == <<"None">>

TrailingPunctuation == {".", ",", ";", ":", "!", "?", ")"}

\* normalize_url, lines 14-52
normalize_url(url) ==
    LET stripped == StripWs(url)
        cut == RStripSet(stripped, TrailingPunctuation)
        has_scheme == StartsWith(cut, HttpScheme \o SchemeSep)
                        \/ StartsWith(cut, HttpsScheme \o SchemeSep)
        full == IF has_scheme THEN cut ELSE HttpsScheme \o SchemeSep \o cut
        parsed == urlparse(full)
    IN  IF url = <<>> \/ url = NoUrl \/ stripped = <<>> THEN NoUrl
        ELSE IF ~has_scheme /\ ~LooksLikeDomain(cut) THEN NoUrl
        ELSE IF parsed.netloc = <<>> THEN NoUrl
        ELSE urlunparse(parsed)

\* ------------------------------------------------- calls of normalize_url
InitNorm ==
    /\ PipeOff
    /\ store_urls = {}
    /\ ss \in { [pc |-> "call", url |-> Expand(t), once |-> NoUrl, twice |-> NoUrl] :
                 t \in SeqsUpTo(UrlTokens, MaxUrlLen) }
    /\ fq = Idle /\ emb = Idle /\ col = Idle /\ st = Idle
    /\ fr = Idle /\ rag = Idle /\ sched = Idle

\* normalize_url(url)
N_Call ==
    /\ ss.pc = "call"
    /\ ss' = [ss EXCEPT !.pc = "again", !.once = normalize_url(ss.url)]
    /\ UNCHANGED <<pipe, fq, emb, col, st, fr, rag, sched>>

\* normalize_url of what the first call returned
N_Again ==
    /\ ss.pc = "again"
    /\ ss' = [ss EXCEPT !.pc = "end", !.twice = normalize_url(ss.once)]
    /\ UNCHANGED <<pipe, fq, emb, col, st, fr, rag, sched>>

NextNorm == N_Call \/ N_Again

SpecNorm == InitNorm /\ [][NextNorm]_vars

\* ------------------------------------------ the text of a question
\* s has the string sub in it (Python: sub in s)
Contains(s, sub) ==
    \E i \in 1..(Len(s) - Len(sub) + 1) : SubSeq(s, i, i + Len(sub) - 1) = sub

\* the words of the questions of the model, letter by letter
WordChars(w) ==
    CASE w = "AUM" -> <<"A", "U", "M">>
      [] w = "of" -> <<"o", "f">>
      [] w = "small" -> <<"s", "m", "a", "l", "l">>
      [] w = "all" -> <<"a", "l", "l">>
      [] w = "compare" -> <<"c", "o", "m", "p", "a", "r", "e">>

QuestionWords == {"AUM", "of", "small", "all", "compare"}

\* the question made of the words: "q w1 w2 ... ?"
RECURSIVE Spaced(_)
Spaced(words) ==
    IF words = <<>> THEN <<>>
    ELSE <<" ">> \o WordChars(Head(words)) \o Spaced(Tail(words))

Question(words) == <<"q">> \o Spaced(words) \o <<" ", "?">>

\* str.lower() on the letters of the questions
LowerChar(c) ==
    CASE c = "A" -> "a"
      [] c = "U" -> "u"
      [] c = "M" -> "m"
      [] OTHER -> c

LowerStr(s) == [i \in 1..Len(s) |-> LowerChar(s[i])]

\* parameter_patterns, lines 162-173, in the order of the dict:
\* <<parameter name, pattern>>
ParameterPatterns ==
    << <<"aum", <<"a", "u", "m">>>>,
       <<"aum", <<"a", "s", "s", "e", "t", "s", " ", "u", "n", "d", "e", "r", " ", "m", "a", "n", "a", "g", "e", "m", "e", "n", "t">>>>,
       <<"aum", <<"a", "s", "s", "e", "t", "s", " ", "u", "n", "d", "e", "r", " ", "m", "g", "m", "t">>>>,
       <<"fund_size", <<"f", "u", "n", "d", " ", "s", "i", "z", "e">>>>,
       <<"fund_size", <<"s", "i", "z", "e", " ", "o", "f", " ", "f", "u", "n", "d">>>>,
       <<"expense_ratio", <<"e", "x", "p", "e", "n", "s", "e", " ", "r", "a", "t", "i", "o">>>>,
       <<"expense_ratio", <<"t", "e", "r">>>>,
       <<"expense_ratio", <<"t", "o", "t", "a", "l", " ", "e", "x", "p", "e", "n", "s", "e", " ", "r", "a", "t", "i", "o">>>>,
       <<"nav", <<"n", "a", "v">>>>,
       <<"nav", <<"n", "e", "t", " ", "a", "s", "s", "e", "t", " ", "v", "a", "l", "u", "e">>>>,
       <<"returns", <<"r", "e", "t", "u", "r", "n", "s">>>>,
       <<"returns", <<"r", "e", "t", "u", "r", "n">>>>,
       <<"returns", <<"p", "e", "r", "f", "o", "r", "m", "a", "n", "c", "e">>>>,
       <<"exit_load", <<"e", "x", "i", "t", " ", "l", "o", "a", "d">>>>,
       <<"exit_load", <<"e", "x", "i", "t", " ", "l", "o", "a", "d", " ", "c", "h", "a", "r", "g", "e", "s">>>>,
       <<"min_sip", <<"m", "i", "n", "i", "m", "u", "m", " ", "s", "i", "p">>>>,
       <<"min_sip", <<"m", "i", "n", " ", "s", "i", "p">>>>,
       <<"min_sip", <<"s", "i", "p", " ", "m", "i", "n", "i", "m", "u", "m">>>>,
       <<"min_sip", <<"m", "i", "n", "i", "m", "u", "m", " ", "i", "n", "v", "e", "s", "t", "m", "e", "n", "t">>>>,
       <<"risk_level", <<"r", "i", "s", "k", " ", "l", "e", "v", "e", "l">>>>,
       <<"risk_level", <<"r", "i", "s", "k">>>>,
       <<"risk_level", <<"r", "i", "s", "k", "o", "m", "e", "t", "e", "r">>>>,
       <<"category", <<"c", "a", "t", "e", "g", "o", "r", "y">>>>,
       <<"category", <<"f", "u", "n", "d", " ", "c", "a", "t", "e", "g", "o", "r", "y">>>>,
       <<"lock_in", <<"l", "o", "c", "k", " ", "i", "n">>>>,
       <<"lock_in", <<"l", "o", "c", "k", "-", "i", "n">>>>,
       <<"lock_in", <<"l", "o", "c", "k", "i", "n", " ", "p", "e", "r", "i", "o", "d">>>> >>

\* the words of lines 186 and 191
AllWords ==
    { <<"a", "l", "l">>, <<"e", "v", "e", "r", "y">>, <<"e", "a", "c", "h">>, <<"l", "i", "s", "t">>, <<"s", "h", "o", "w">>, <<"t", "a", "b", "l", "e">>, <<"c", "o", "m", "p", "a", "r", "e">> }

\* fund_indicators, line 183
FundIndicators ==
    { <<" ", "o", "f", " ">>, <<" ", "f", "o", "r", " ">>, <<" ", "f", "u", "n", "d">>, <<" ", "s", "c", "h", "e", "m", "e">>, <<" ", "p", "l", "a", "n">> }

\* RAGChain._is_parameter_only_query: <<is_parameter_query, parameter_name>>
is_parameter_only_query(question) ==
    LET question_lower == LowerStr(question)
        hits == {n \in 1..Len(ParameterPatterns) :
                    Contains(question_lower, ParameterPatterns[n][2])}
        asks_all == \E word \in AllWords : Contains(question_lower, word)
        has_specific_fund ==
            \E indicator \in FundIndicators :
                Contains(question_lower, indicator) /\ ~asks_all
    IN  IF hits # {} /\ (~has_specific_fund \/ asks_all)
        THEN <<TRUE, ParameterPatterns[CHOOSE n \in hits : \A m \in hits : n <= m][1]>>
        ELSE <<FALSE, "None">>

\* ------------------------------------------- URLs in the text of an answer
Whitespace == {" ", "\n", "\t"}

\* the characters that end a URL in the patterns of lines 68 and 380
UrlStop == Whitespace \cup {")", "]", ">", "'", "\""}

\* the length of the scheme that begins at i, or 0 (the answers of the model
\* are in lower case)
SchemeAt(text, i) ==
    IF StartsWith(SubSeq(text, i, Len(text)), HttpsScheme \o SchemeSep) THEN 8
    ELSE IF StartsWith(SubSeq(text, i, Len(text)), HttpScheme \o SchemeSep) THEN 7
    ELSE 0

\* the matches <<first, last>> of https?://[^\s\)\]\>\"\'\n]+ from i on, from
\* left to right, without overlap
RECURSIVE FindUrls(_, _)
FindUrls(text, i) ==
    IF i > Len(text) THEN <<>>
    ELSE LET n == SchemeAt(text, i)
             e == FindFirst(text, i + n, UrlStop) - 1
         IN  IF n > 0 /\ e >= i + n
             THEN << <<i, e>> >> \o FindUrls(text, e + 1)
             ELSE FindUrls(text, i + 1)

\* the values of a list without repetition, in first-seen order
RECURSIVE Dedup(_, _)
Dedup(s, seen) ==
    IF s = <<>> THEN <<>>
    ELSE IF Head(s) \in seen THEN Dedup(Tail(s), seen)
    ELSE <<Head(s)>> \o Dedup(Tail(s), seen \cup {Head(s)})

\* extract_urls_from_text, lines 55-78
extract_urls_from_text(text) ==
    LET matches == FindUrls(text, 1)
        normalized == [n \in 1..Len(matches) |->
                          normalize_url(SubSeq(text, matches[n][1], matches[n][2]))]
    IN  Dedup(normalized, {NoUrl})

\* the first position of the whitespace that ends just before position i
RECURSIVE WsStart(_, _)
WsStart(text, i) ==
    IF i > 1 /\ text[i - 1] \in Whitespace THEN WsStart(text, i - 1) ELSE i

\* text from position i on without the matches, each with the whitespace
\* before it (re.sub of line 381; no answer of the model has a "Source" label)
RECURSIVE CutUrls(_, _, _)
CutUrls(text, i, matches) ==
    IF matches = <<>> THEN SubSeq(text, i, Len(text))
    ELSE SubSeq(text, i, WsStart(text, Head(matches)[1]) - 1)
           \o CutUrls(text, Head(matches)[2] + 1, Tail(matches))

\* str.lstrip(chars)
RECURSIVE LStripSet(_, _)
LStripSet(s, chars) ==
    IF s # <<>> /\ Head(s) \in chars THEN LStripSet(Tail(s), chars) ELSE s

\* lines 380-384: the answer without its URLs, stripped
strip_urls(answer) ==
    RStripSet(LStripSet(CutUrls(answer, 1, FindUrls(answer, 1)), Whitespace), Whitespace)

\* ------------------------------------------------ the collection, queried
\* a chunk as a query reads it: its source_url, whether it has a fund_name,
\* and its cosine distance from the query
Chunk(u, f, d) == [source_url |-> u, fund_name |-> f, distance |-> d]

\* the chunks in ascending distance; chunks at the same distance keep the
\* order of the collection
RECURSIVE ByDistance(_)
ByDistance(chunks) ==
    IF chunks = <<>> THEN <<>>
    ELSE LET least == CHOOSE i \in 1..Len(chunks) :
                         /\ \A j \in 1..Len(chunks) : chunks[i].distance <= chunks[j].distance
                         /\ \A j \in 1..(i - 1) : chunks[j].distance # chunks[i].distance
         IN  <<chunks[least]>> \o
             ByDistance(SubSeq(chunks, 1, least - 1) \o SubSeq(chunks, least + 1, Len(chunks)))

MinOf(a, b) == IF a <= b THEN a ELSE b
MaxOf(a, b) == IF a >= b THEN a ELSE b

\* a query that returns one chunk more than asked for
collection_query_OneMore(chunks, k) ==
    SubSeq(ByDistance(chunks), 1, MinOf(k + 1, Len(chunks)))

\* collection.query(n_results=k): the k nearest chunks, or all of them when
\* the collection has fewer
collection_query(chunks, k) == SubSeq(ByDistance(chunks), 1, MinOf(k, Len(chunks)))

\* a score that is the distance itself
ScoreOf_Distance(distance) == distance

\* line 371: score = 1 - distance
ScoreOf(distance) == 1 - distance

\* ChromaVectorStore.similarity_search: the documents
similarity_search(chunks, k) == collection_query(chunks, IF k = 0 THEN TopK ELSE k)

\* ChromaVectorStore.similarity_search_with_score: <<document, score>> pairs
similarity_search_with_score(chunks, k) ==
    LET found == collection_query(chunks, IF k = 0 THEN TopK ELSE k)
    IN  [i \in 1..Len(found) |-> <<found[i], ScoreOf(found[i].distance)>>]

\* ChromaVectorStore.get_all_funds; scan_ok = FALSE: collection.get raised
get_all_funds(chunks, scan_ok) ==
    IF scan_ok THEN SelectSeq(chunks, LAMBDA c : c.fund_name) ELSE <<>>

\* ------------------------------------------ one call of query_with_retrieval
\* line 215
IsParameterQuery(question) == is_parameter_only_query(question)[1]

\* line 224: retrieval_k
RetrievalK(question, k) ==
    IF Contains(LowerStr(question), <<"c", "o", "m", "p", "a", "r", "e">>)
       \/ Contains(LowerStr(question), <<"m", "u", "l", "t", "i", "p", "l", "e">>)
    THEN MaxOf(k, CompareMinK) ELSE k

\* citation URLs with the "N/A" of line 251 in place of an empty list
SourceUrls_OrNA(documents) ==
    IF documents = <<>> THEN << <<"N", "/", "A">> >>
    ELSE Dedup([i \in 1..Len(documents) |->
                  IF documents[i].source_url = <<>> THEN NoUrl
                  ELSE normalize_url(documents[i].source_url)], {NoUrl})

\* lines 238-248: the citation URLs of the documents
SourceUrls(documents) ==
    Dedup([i \in 1..Len(documents) |->
             IF documents[i].source_url = <<>> THEN NoUrl
             ELSE normalize_url(documents[i].source_url)], {NoUrl})

\* lines 451-464: one entry of sources per document
Sources(documents, scores) ==
    [i \in 1..Len(documents) |->
        [source_url |-> IF documents[i].source_url # <<>>
                           /\ normalize_url(documents[i].source_url) # NoUrl
                        THEN normalize_url(documents[i].source_url)
                        ELSE documents[i].source_url,
         similarity_score |-> IF scores # <<>> THEN scores[i] ELSE None]]

\* lines 377-384: the answer returned
Answer(raw) == strip_urls(raw)

\* line 387: answer_urls, extracted from the answer of line 384
AnswerUrls(raw) == extract_urls_from_text(Answer(raw))

\* lines 389-396: citation_urls
AllCitationUrls(source_urls, answer_urls) == Dedup(source_urls \o answer_urls, {})

\* the state of a call that begins
RagInit(words, k, return_scores, chunks, answers) ==
    [question |-> Question(words), words |-> words, k |-> k,
     return_scores |-> return_scores, chunks |-> chunks, llm_answers |-> answers,
     pc |-> "call", is_parameter_query |-> FALSE, retrieval_k |-> 0,
     store_calls |-> <<>>, documents |-> <<>>, scores |-> <<>>,
     source_urls |-> <<>>, llm_calls |-> 0, raw_answer |-> <<>>,
     raised |-> "None", result |-> NoCall]

\* lines 212-252: classification, retrieval and the citation URLs of the
\* documents; store_ok = FALSE: the store (or the embedding of the question)
\* raises, which only get_all_funds catches
Q_Retrieve ==
    /\ rag.pc = "call"
    /\ \E store_ok \in BOOLEAN :
          LET k == IF rag.k = 0 THEN TopK ELSE rag.k
              retrieval_k == RetrievalK(rag.question, k)
              retrieved_docs == similarity_search_with_score(rag.chunks, retrieval_k)
          IN  IF IsParameterQuery(rag.question)
              THEN LET documents == get_all_funds(rag.chunks, store_ok)
                   IN  rag' = [rag EXCEPT !.pc = "invoke", !.is_parameter_query = TRUE,
                                          !.store_calls = <<"get_all_funds">>,
                                          !.documents = documents,
                                          !.source_urls = SourceUrls(documents)]
              ELSE IF ~store_ok
              THEN rag' = [rag EXCEPT !.pc = "raised", !.raised = "store",
                                      !.retrieval_k = retrieval_k,
                                      !.store_calls = <<"similarity_search">>]
              ELSE IF rag.return_scores
              THEN LET documents == [i \in 1..Len(retrieved_docs) |-> retrieved_docs[i][1]]
                   IN  rag' = [rag EXCEPT !.pc = "invoke", !.retrieval_k = retrieval_k,
                                   !.store_calls = <<"similarity_search">>,
                                   !.documents = documents,
                                   !.scores = [i \in 1..Len(retrieved_docs) |->
                                                  retrieved_docs[i][2]],
                                   !.source_urls = SourceUrls(documents)]
              ELSE LET documents == similarity_search(rag.chunks, retrieval_k)
                   IN  rag' = [rag EXCEPT !.pc = "invoke", !.retrieval_k = retrieval_k,
                                   !.store_calls = <<"similarity_search">>,
                                   !.documents = documents,
                                   !.source_urls = SourceUrls(documents)]
    /\ UNCHANGED <<pipe, fq, emb, col, st, fr, ss, sched>>

\* an LLM that is asked again after a failure
LlmFailure_Retries(r) == [r EXCEPT !.llm_calls = @ + 1]

\* lines 374-375: the exception of self.llm.invoke leaves query_with_retrieval
LlmFailure(r) == [r EXCEPT !.llm_calls = @ + 1, !.pc = "raised", !.raised = "llm"]

\* line 374: self.llm.invoke(prompt) raises or returns a text
Q_Invoke ==
    /\ rag.pc = "invoke"
    /\ \/ rag' = LlmFailure(rag)
       \/ \E raw \in rag.llm_answers :
             rag' = [rag EXCEPT !.llm_calls = @ + 1, !.pc = "respond", !.raw_answer = raw]
    /\ UNCHANGED <<pipe, fq, emb, col, st, fr, ss, sched>>

\* lines 377-466: the answer without URLs, the citations, the result
Q_Respond ==
    /\ rag.pc = "respond"
    /\ rag' = [rag EXCEPT
                 !.pc = "done",
                 !.result = [done |-> TRUE,
                             answer |-> Answer(rag.raw_answer),
                             retrieved_documents |-> Len(rag.documents),
                             citation_url |-> IF rag.source_urls # <<>>
                                              THEN rag.source_urls[1] ELSE <<>>,
                             citation_urls |-> AllCitationUrls(rag.source_urls,
                                                   AnswerUrls(rag.raw_answer)),
                             sources |-> Sources(rag.documents, rag.scores)]]
    /\ UNCHANGED <<pipe, fq, emb, col, st, fr, ss, sched>>

NextQuery == Q_Retrieve \/ Q_Invoke \/ Q_Respond

\* the lists of S in which no element comes twice
NoRepeat(S) == {s \in S : \A i, j \in 1..Len(s) : s[i] = s[j] => i = j}

\* the collections of at most n chunks that differ in having a fund_name,
\* those that have one first
Collections(n) ==
    { [i \in 1..m |-> Chunk(Expand(<<"https://", "a">>), i <= named, 0)] :
        <<m, named>> \in {p \in (0..n) \X (0..n) : p[2] <= p[1]} }

\* the questions of at most MaxWords different words, over the collections
\* of at most MaxChunks + 1 chunks
InitRoute ==
    /\ PipeOff
    /\ store_urls = {}
    /\ rag \in { RagInit(w, k, s, c, {<<"x">>, Expand(<<"x", " ", "https://", "a">>)}) :
                  w \in NoRepeat(SeqsUpTo(QuestionWords, MaxWords)), k \in 0..MaxK,
                  s \in BOOLEAN, c \in Collections(MaxChunks + 1) }
    /\ fq = Idle /\ emb = Idle /\ col = Idle /\ st = Idle
    /\ fr = Idle /\ ss = Idle /\ sched = Idle

SpecRoute == InitRoute /\ [][NextQuery]_vars

\* ------------------------------------------------ the citations of a call
\* the source_url values of the chunks: a URL, the same URL with blanks and a
\* final full stop, a URL without a host, a word that is no URL, and ""
SourceUrlPool ==
    { Expand(<<"https://", "a">>), Expand(<<" ", "https://", "a", ".">>),
      Expand(<<"http://", ":", "/">>), Expand(<<"a">>), <<>> }

\* the texts an LLM may answer with
AnswerTokens == {"x", " ", "https://", ")"}

\* a question about one fund and k absent, over every collection of at most
\* MaxChunks + 1 chunks with an answer that has no URL, or over a collection
\* of at most one chunk with every answer of at most MaxAnswerLen tokens
InitCite ==
    /\ PipeOff
    /\ store_urls = {}
    /\ rag \in { RagInit(<<"AUM", "of">>, 0, FALSE,
                         [i \in 1..Len(u) |-> Chunk(u[i], TRUE, 0)], {<<"x">>}) :
                    u \in SeqsUpTo(SourceUrlPool, MaxChunks + 1) }
               \cup
               { RagInit(<<"AUM", "of">>, 0, FALSE, c,
                         {Expand(t) : t \in SeqsUpTo(AnswerTokens, MaxAnswerLen)}) :
                    c \in { <<>>, <<Chunk(Expand(<<"https://", "a">>), TRUE, 0)>> } }
    /\ fq = Idle /\ emb = Idle /\ col = Idle /\ st = Idle
    /\ fr = Idle /\ ss = Idle /\ sched = Idle

SpecCite == InitCite /\ [][NextQuery]_vars

\* --------------------------------------------- calls of the two searches
\* the collections of at most n chunks of two pages at the distances
\* 0..MaxDist from the query
Ranked(n) ==
    SeqsUpTo({ Chunk(Expand(<<"https://", u>>), TRUE, d) : u \in {"a", "com"}, d \in 0..MaxDist }, n)

InitSearch ==
    /\ PipeOff
    /\ store_urls = {}
    /\ ss \in { [pc |-> "call", chunks |-> c, k |-> k, fn |-> "None",
                 documents |-> <<>>, documents_with_scores |-> <<>>] :
                 c \in Ranked(MaxChunks + 1), k \in 0..TopK }
    /\ fq = Idle /\ emb = Idle /\ col = Idle /\ st = Idle
    /\ fr = Idle /\ rag = Idle /\ sched = Idle

\* similarity_search(query, k)
Sr_Search ==
    /\ ss.pc = "call"
    /\ ss' = [ss EXCEPT !.pc = "done", !.fn = "similarity_search",
                        !.documents = similarity_search(ss.chunks, ss.k)]
    /\ UNCHANGED <<pipe, fq, emb, col, st, fr, rag, sched>>

\* similarity_search_with_score(query, k)
Sr_SearchWithScore ==
    /\ ss.pc = "call"
    /\ ss' = [ss EXCEPT !.pc = "done", !.fn = "similarity_search_with_score",
                        !.documents_with_scores =
                            similarity_search_with_score(ss.chunks, ss.k)]
    /\ UNCHANGED <<pipe, fq, emb, col, st, fr, rag, sched>>

NextSearch == Sr_Search \/ Sr_SearchWithScore

SpecSearch == InitSearch /\ [][NextSearch]_vars

\* ----------------------- the batches of upsert_documents and add_documents
\* the caller's batch_size goes unchanged to _batch_embed_documents
ClampBatch_None(batch_size) == batch_size

\* lines 152-154 and 267-269: if batch_size > 10: batch_size = 10
ClampBatch(batch_size) == IF batch_size > BatchCeiling THEN BatchCeiling ELSE batch_size

\* upsert_documents or add_documents is called with up to MaxTexts texts
\* more than the ceiling to embed and a batch_size up to MaxBatch above it
InitClamp ==
    /\ PipeOff /\ store_urls = {}
    /\ emb \in { [EmbInit(n, b, DefaultRetries) EXCEPT !.pc = "enter", !.fn = f] :
                    n \in 0..(BatchCeiling + MaxTexts),
                    b \in 1..(BatchCeiling + MaxBatch),
                    f \in {"upsert_documents", "add_documents"} }
    /\ fq = Idle /\ col = Idle /\ st = Idle
    /\ fr = Idle /\ rag = Idle /\ ss = Idle /\ sched = Idle

\* lines 152-155 and 267-270: the clamp, then
\* self._batch_embed_documents(texts, batch_size=batch_size, delay=1.0)
B_Enter ==
    /\ emb.pc = "enter"
    /\ emb' = [emb EXCEPT !.pc = "batch", !.batch_size = ClampBatch(emb.given)]
    /\ UNCHANGED <<pipe, fq, col, st, fr, rag, ss, sched>>

NextClamp == B_Enter \/ E_Batch \/ E_Try

SpecClamp == InitClamp /\ [][NextClamp]_vars

\* ----------------------------- start() and stop() on one ScheduledScraper
\* sched.running is self.running, sched.thread the number of the thread in
\* self.thread (0: None), sched.loops the threads start() has created, each
\* with its position in scheduler_loop and the number of start() calls at
\* its last successful test of self.running; sched.caller is the position of
\* the thread that calls start() and stop()
SchedInit(enabled, data_exists) ==
    [enabled |-> enabled, data_exists |-> data_exists, running |-> FALSE,
     thread |-> 0, loops |-> <<>>, caller |-> "idle", starts |-> 0, stops |-> 0]

InitLoops ==
    /\ PipeOff /\ store_urls = {}
    /\ sched \in { SchedInit(e, d) : e \in BOOLEAN, d \in BOOLEAN }
    /\ fq = Idle /\ emb = Idle /\ col = Idle /\ st = Idle
    /\ fr = Idle /\ rag = Idle /\ ss = Idle

Others == <<pipe, fq, emb, col, st, fr, rag, ss>>

\* start(), lines 639-665: nothing when self.running is set or scheduling is
\* disabled; without data the initial run is made in the caller's thread
Sc_Start ==
    /\ sched.caller = "idle"
    /\ sched.starts < MaxStarts
    /\ sched' = [sched EXCEPT
                    !.starts = @ + 1,
                    !.caller = IF sched.running \/ ~sched.enabled THEN "idle"
                               ELSE IF sched.data_exists THEN "launch"
                               ELSE "initial_run"]
    /\ UNCHANGED Others

\* start(), lines 659-665: the initial run ends, or raises an Exception that
\* is logged; from then on data exists or not
Sc_InitialRun ==
    /\ sched.caller = "initial_run"
    /\ \E d \in BOOLEAN :
          sched' = [sched EXCEPT !.caller = "launch", !.data_exists = d]
    /\ UNCHANGED Others

\* start(), lines 667-670: self.running = True and a new thread that runs
\* scheduler_loop, kept in self.thread
Sc_Launch ==
    /\ sched.caller = "launch"
    /\ sched' = [sched EXCEPT
                    !.running = TRUE,
                    !.loops = Append(@, [pc |-> "l_top", seen |-> 0]),
                    !.thread = Len(sched.loops) + 1,
                    !.caller = "idle"]
    /\ UNCHANGED Others

\* stop(), lines 674-677: nothing when self.running is not set; else the
\* flag is cleared and the caller joins self.thread
Sc_Stop ==
    /\ sched.caller = "idle"
    /\ sched.stops < MaxStops
    /\ sched' = [sched EXCEPT
                    !.stops = @ + 1,
                    !.running = FALSE,
                    !.caller = IF sched.running /\ sched.thread # 0
                               THEN "join" ELSE "idle"]
    /\ UNCHANGED Others

\* stop(), line 679: self.thread.join(timeout=10) returns when the thread has
\* ended or when ten seconds are over, whichever comes first; the loop
\* sleeps sixty seconds between two tests of self.running (line 556)
Sc_Join ==
    /\ sched.caller = "join"
    /\ sched' = [sched EXCEPT !.caller = "idle"]
    /\ UNCHANGED Others

\* scheduler_loop of thread k, lines 543-552: while self.running, then
\* calculate_next_run (None when scheduling is disabled: break)
Sc_LoopTop(k) ==
    /\ k <= Len(sched.loops)
    /\ sched.loops[k].pc = "l_top"
    /\ sched' = [sched EXCEPT
                    !.loops[k] = IF ~sched.running \/ ~sched.enabled
                                 THEN [@ EXCEPT !.pc = "exited"]
                                 ELSE [pc |-> "l_wait", seen |-> sched.starts]]
    /\ UNCHANGED Others

\* lines 555-559: after a sleep of sixty seconds self.running is tested; the
\* thread leaves, sleeps again, or goes on to its cycle when next_run is
\* reached (due)
Sc_LoopWait(k) ==
    /\ k <= Len(sched.loops)
    /\ sched.loops[k].pc = "l_wait"
    /\ \E due \in BOOLEAN :
          sched' = [sched EXCEPT
                       !.loops[k] = IF ~sched.running THEN [@ EXCEPT !.pc = "exited"]
                                    ELSE [pc |-> IF due THEN "l_cycle" ELSE "l_wait",
                                          seen |-> sched.starts]]
    /\ UNCHANGED Others

\* lines 561-595: detect_new_urls, the freshness check and the pipeline run
\* of the cycle, or an exception and the sleep of five minutes; then the
\* while of line 543 again
Sc_LoopCycle(k) ==
    /\ k <= Len(sched.loops)
    /\ sched.loops[k].pc = "l_cycle"
    /\ sched' = [sched EXCEPT !.loops[k].pc = "l_top"]
    /\ UNCHANGED Others

NextLoops ==
    \/ Sc_Start \/ Sc_InitialRun \/ Sc_Launch \/ Sc_Stop \/ Sc_Join
    \/ \E k \in 1..MaxStarts : Sc_LoopTop(k) \/ Sc_LoopWait(k) \/ Sc_LoopCycle(k)

SpecLoops == InitLoops /\ [][NextLoops]_vars

\* ================================================================ claims
\* a pipeline operation (run_full_pipeline, run_scraping, run_ingestion) is
\* executing in thread t
Active(t) == loc[t].op # "none" /\ pc[t] \notin {"ret", "dead"}

\* the URLs of a results list, in order
UrlsOf(results) == [k \in 1..Len(results) |-> results[k].url]

\* the positions at which run_scraping has its URL list
InScraping == {"s_pre", "s_scrape", "s_end"}

\* the data is fresh: a freshness check that reaches the store reports it so
Fresh == latest_ts # None /\ clock - latest_ts < interval_hours_of(cfg)

\* C1: at any time at most one pipeline execution (run_full_pipeline,
\* run_scraping or run_ingestion) is active against the collection.
C1_AtMostOneActiveRun == Cardinality({t \in Threads : Active(t)}) <= 1

\* C2: in run_full_pipeline with check_new_urls = True, once detection has
\* returned a non-empty list the freshness check is never evaluated, the run is
\* not skipped, and run_scraping is given and processes exactly that list, in
\* that order, whatever force is and however fresh the data.
C2_NewUrlsBypassFreshness ==
    \A t \in Threads :
        (loc[t].op = "pipeline" /\ loc[t].check_new_urls /\ loc[t].new_urls # <<>>)
        => /\ ~loc[t].should_run_called
           /\ pc[t] # "p_fresh"
           /\ ~loc[t].skipped
           /\ pc[t] \in InScraping \cup {"s_init"}
                 => loc[t].urls_given /\ loc[t].urls_to_process = loc[t].new_urls
           /\ loc[t].scraping_result = "completed"
                 => UrlsOf(loc[t].results) = loc[t].new_urls

C2_Witness ==
    /\ loc["op"].op = "pipeline" /\ loc["op"].check_new_urls /\ ~loc["op"].force
    /\ Len(loc["op"].new_urls) >= 2
    /\ Fresh
    /\ loc["op"].scraping_result = "completed"

\* the run of thread t has returned as a skip that scraped nothing, ingested
\* nothing and left the store and the data directory as they were at the call
SkippedCleanly(t) ==
    /\ pc[t] = "ret"
    /\ loc[t].skipped
    /\ loc[t].scraping_result = "skipped" /\ loc[t].ingestion_result = "skipped"
    /\ loc[t].results = <<>>
    /\ ~loc[t].ingest_called
    /\ <<store_urls, latest_ts, disk>> = loc[t].at_call
    /\ ~status.is_running

\* a run of run_full_pipeline with force = False in which no new URL was found
\* (or check_new_urls = False) and whose freshness check said fresh
FreshUnforcedRun(t) ==
    /\ loc[t].op = "pipeline" /\ ~loc[t].force
    /\ ~loc[t].check_new_urls \/ loc[t].new_urls = <<>>
    /\ loc[t].fresh_result = "fresh"

\* C3: run_full_pipeline with force = False, when no new URL is found (or
\* check_new_urls = False) and the freshness check reports fresh, returns a
\* result marked skipped, with both stages "skipped", after no scrape call, no
\* ingestion and no write to the store, and the run status holds no error.
C3_SkipRecordsNoError ==
    \A t \in Threads :
        FreshUnforcedRun(t) => SkippedCleanly(t) /\ status.error = "None"

C5_EveryUrlAttemptedOnce ==
    \A t \in Threads :
        /\ pc[t] \in InScraping
              => /\ Len(loc[t].results) = loc[t].i - 1
                 /\ Len(loc[t].results) <= Len(loc[t].urls_to_process)
                 /\ UrlsOf(loc[t].results)
                       = SubSeq(loc[t].urls_to_process, 1, Len(loc[t].results))
                 /\ \A k \in 1..Len(loc[t].results) :
                       loc[t].results[k].status \in ScrapeOutcomes
        /\ (pc[t] = "s_end" \/ loc[t].scraping_result = "completed")
              => /\ UrlsOf(loc[t].results) = loc[t].urls_to_process
                 /\ Cardinality({k \in 1..Len(loc[t].results) :
                                    loc[t].results[k].status # "success"})
                       + successful(loc[t].results) = Len(loc[t].urls_to_process)
        /\ ( /\ loc[t].op = "pipeline" /\ loc[t].scraping_result = "completed"
             /\ successful(loc[t].results) > 0 /\ cfg.auto_ingest_after_scrape )
              => pc[t] = "i_begin" \/ loc[t].ingest_called

C5_Witness ==
    /\ loc["op"].op = "pipeline"
    /\ Len(loc["op"].results) >= 2
    /\ loc["op"].results[1].status = "error"
    /\ loc["op"].results[2].status = "success"
    /\ loc["op"].ingest_called

\* C6: a scheduler cycle that failed leaves the loop alive (in its cooldown, or
\* back in a later cycle).
C6_LoopSurvivesFailedCycle == lp.cycle = "error" => pc["loop"] # "dead"

\* C7: after the embedding or storage layer failed inside the ingestion stage,
\* the run status holds the failure and is_running is false.
C7_IngestFailureRecorded ==
    \A t \in Threads :
        (pc[t] = "dead" /\ loc[t].raised = "SystemExit")
        => status.error # "None" /\ ~status.is_running

\* C8: after a cycle that found no new URL and fresh data, the loop waits for
\* next_update_time = latest + interval.
C8_WaitsForNextUpdate ==
    (pc["loop"] = "l_wait" /\ lp.cycle = "fresh" /\ lp.next_update_time # None)
    => next_run = lp.next_update_time

\* C9: in a cycle whose detect_new_urls returned the non-empty list L on wake,
\* the pipeline run of that cycle scrapes exactly the URLs of L.
C9_RunScrapesWakeList ==
    (lp.cycle = "new_urls" /\ pc["loop"] \in InScraping)
    => loc["loop"].urls_to_process = lp.new_urls

\* C10: in every state a status poller can observe, urls_processed is no
\* longer than urls_total.
C10_ProcessedWithinTotal == Len(get_status.urls_processed) <= get_status.urls_total

\* the URL a spelling stands for: k for a spelling of the k-th URL, 0 for a
\* string that is blank once trimmed and stripped of its slashes
Ident(u) ==
    IF \E k \in 1..MaxUrls : u \in Variants(k)
    THEN CHOOSE k \in 1..MaxUrls : u \in Variants(k)
    ELSE 0

StoredIdents == {Ident(v) : v \in store_urls}

\* C20: find_new_urls returns exactly the candidates whose normalized form is
\* not the normalized source_url of any stored chunk, as the caller's strings
\* and in the caller's order.
C20_ReturnsExactlyUnstored ==
    fq # Idle /\ fq.pc = "done"
    => fq.new_urls = SeqFilter(fq.config_urls,
                         {u \in Range(fq.config_urls) : Ident(u) \notin StoredIdents})

\* C20, amended: when the stored URLs can be read, find_new_urls returns
\* exactly the candidates that are not blank once normalized and whose
\* normalized form is not the normalized source_url of any stored chunk, as the
\* caller's strings and in the caller's order; when the collection cannot be
\* read it returns every candidate that is not blank once normalized.
C20_ReturnsUnstoredNonBlank ==
    fq # Idle /\ fq.pc = "done"
    => fq.new_urls = SeqFilter(fq.config_urls,
                         {u \in Range(fq.config_urls) :
                             /\ Ident(u) # 0
                             /\ fq.scan_ok => Ident(u) \notin StoredIdents})

C20_Witness ==
    /\ fq # Idle /\ fq.pc = "done" /\ fq.scan_ok
    /\ Len(fq.config_urls) = 2
    /\ Ident(fq.config_urls[1]) # 0
    /\ Ident(fq.config_urls[1]) \in StoredIdents
    /\ fq.config_urls[1] \notin store_urls
    /\ fq.new_urls = <<fq.config_urls[2]>>

\* the error e makes the batcher give up at once
Fatal(e) == ~e.quota \/ e.zero

\* every error the current batch met was a quota error worth a retry
AllRetryable == \A k \in 1..Len(emb.errors) : ~Fatal(emb.errors[k])

\* C15: a batch that meets n retryable quota errors and then a success, with
\* n <= max_retries, succeeds after exactly n retries and n + 1 provider
\* calls; a batch raises on retryable errors only at the (max_retries + 1)-th
\* in a row; no batch makes more than max_retries + 1 provider calls; and the
\* wait before retry number a is BaseWait * 2^(a-1).
C15_RetriesWithBackoff ==
    /\ emb.batch_calls <= emb.max_retries + 1
    /\ Len(emb.waits) <= emb.max_retries
    /\ \A a \in 1..Len(emb.waits) : emb.waits[a] = BaseWait * Pow2(a - 1)
    /\ emb.success =>
          /\ AllRetryable
          /\ Len(emb.errors) <= emb.max_retries
          /\ emb.retry_count = Len(emb.errors)
          /\ Len(emb.waits) = Len(emb.errors)
          /\ emb.batch_calls = Len(emb.errors) + 1
    /\ (emb.pc = "try" /\ AllRetryable) =>
          /\ Len(emb.errors) <= emb.max_retries
          /\ Len(emb.waits) = Len(emb.errors)
    /\ (emb.pc = "raised" /\ AllRetryable) =>
          /\ Len(emb.errors) = emb.max_retries + 1
          /\ emb.batch_calls = emb.max_retries + 1

C15_Witness ==
    /\ emb.max_retries = MaxRetries
    /\ emb.success /\ Len(emb.errors) = MaxRetries
    /\ emb.batch_calls = MaxRetries + 1

\* C16: a quota error with the zero-remaining signature, and any error that is
\* not a quota error, make the call raise at once: it is the last provider
\* call, no wait follows it (none at all when it is the first call of the
\* batch), no later batch is attempted and nothing is returned.
C16_FatalErrorsRaiseAtOnce ==
    (emb.errors # <<>> /\ Fatal(emb.errors[Len(emb.errors)]))
    => /\ emb.pc = "raised"
       /\ emb.returned = NotReturned
       /\ emb.batch_calls = Len(emb.errors)
       /\ Len(emb.waits) = Len(emb.errors) - 1
       /\ emb.retry_count = Len(emb.errors) - 1
       /\ Len(emb.errors) = 1 => emb.batch_calls = 1 /\ emb.waits = <<>>
       /\ Len(emb.all_embeddings) = emb.i
       /\ emb.batches = (emb.i \div emb.batch_size) + 1

C16_Witness ==
    /\ emb.pc = "raised" /\ Len(emb.errors) = 1
    /\ emb.errors[1].quota /\ emb.errors[1].zero
    /\ emb.batches = 1 /\ emb.n_texts > emb.batch_size

\* both calls of upsert_documents returned, and the second was given the
\* chunks of the first
SameChunksTwice ==
    /\ col.pc = "end"
    /\ ~col.first.raised /\ ~col.last.raised
    /\ col.first.documents # <<>>
    /\ col.last.documents = col.first.documents

\* C17: upserting the same chunks twice returns the same ids, leaves the
\* number of records, and the text and vector of each, as they were after the
\* first call, and gives each record an ingestion_timestamp later than the
\* one the first call gave it.
C17_UpsertTwiceIdempotent ==
    SameChunksTwice
    => /\ col.last.ids = col.first.ids
       /\ DOMAIN col.last.after = DOMAIN col.first.after
       /\ \A x \in DOMAIN col.first.after :
             /\ col.last.after[x].document = col.first.after[x].document
             /\ col.last.after[x].embedding = col.first.after[x].embedding
             /\ col.last.after[x].metadata.ingestion_timestamp
                   > col.first.after[x].metadata.ingestion_timestamp

C17_Witness ==
    /\ SameChunksTwice
    /\ Len(col.first.documents) = 2
    /\ col.last.skip_existing /\ col.last.check_ok
    /\ col.last.embedded = {}

\* the (source_file, chunk_index) of the record stored under id x
KeyOf(x) == <<col.recs[x].metadata.source_file, col.recs[x].metadata.chunk_index>>

\* C18: a chunk identified by its (source_file, chunk_index) is stored under
\* one id only, whatever the calls of upsert_documents were.
C18_OneIdPerChunk ==
    \A x \in DOMAIN col.recs, y \in DOMAIN col.recs : KeyOf(x) = KeyOf(y) => x = y

\* the ids of the last call's chunks, one per chunk and in their order
InputIds(call) == [i \in 1..Len(call.documents) |-> MakeId(call.documents[i], i - 1)]

\* what C19 says of a call that found the id x in the store: text, vector and
\* metadata stay, but for the ingestion_timestamp, which is the call's
OnlyTimestampRefreshed(call, x) ==
    /\ call.after[x].document = call.before[x].document
    /\ call.after[x].embedding = call.before[x].embedding
    /\ call.after[x].metadata
          = [call.before[x].metadata EXCEPT
                !.ingestion_timestamp = call.ingestion_timestamp]

\* C19: upsert_documents with skip_existing = True calls the embedding
\* provider only for chunks whose id is not yet in the store; a chunk whose id
\* exists keeps text, vector and metadata, but for its ingestion_timestamp,
\* which becomes the call's; the ids returned are those of the input chunks,
\* one each and in their order.
C19_SkipExistingOnlyRefreshes ==
    (col.last.done /\ col.last.skip_existing)
    => /\ col.last.embedded \cap DOMAIN col.last.before = {}
       /\ \A i \in 1..Len(col.last.documents) :
             InputIds(col.last)[i] \in DOMAIN col.last.before
             => OnlyTimestampRefreshed(col.last, InputIds(col.last)[i])
       /\ ~col.last.raised => col.last.ids = InputIds(col.last)

\* C19, amended: the same, for a call whose look-up of the stored ids
\* succeeded; when that look-up raises, the call goes on without skipping.
C19_SkipExistingWhenLookupWorks ==
    (col.last.done /\ col.last.skip_existing /\ col.last.check_ok)
    => /\ col.last.embedded \cap DOMAIN col.last.before = {}
       /\ \A i \in 1..Len(col.last.documents) :
             InputIds(col.last)[i] \in DOMAIN col.last.before
             => OnlyTimestampRefreshed(col.last, InputIds(col.last)[i])
       /\ ~col.last.raised => col.last.ids = InputIds(col.last)

C19_Witness ==
    /\ col.pc = "end" /\ col.last.skip_existing /\ col.last.check_ok
    /\ ~col.last.raised
    /\ Len(col.last.documents) = 2
    /\ col.last.ids[1] \in DOMAIN col.last.before
    /\ col.last.embedded = {col.last.ids[2]}
    /\ col.last.documents[1].page_content # col.last.before[col.last.ids[1]].document

\* C11: every value get_status returns is the status as it stood after some
\* completed update_status or reset_status call (or before the first).
C11_SnapshotsAreCompletedUpdates == st.snapshot \in st.completed

\* the states of the loop thread in which no pipeline run is in progress
Quiet == {"off", "l_top", "l_wait", "l_cooldown", "exited", "dead"}

\* the loop sleeps: it waits for next_run or for the end of the cooldown
Asleep == {"l_wait", "l_cooldown"}

\* C12: the initial run of start() is made in the caller's thread before the
\* loop is started, and its failure does not prevent the loop from starting:
\* a start() whose initial run raised is at the launch of the loop
C12_FailedInitialRunStillStartsLoop ==
    /\ (loc["op"].in_start /\ pc["op"] # "st_launch")
          => (pc["loop"] \in {"off", "exited", "dead"} /\ ~running)
    /\ (loc["op"].in_start /\ loc["op"].raised # "None")
          => pc["op"] = "st_launch"

\* C13: stop() is idempotent: every call leaves the running flag false, and a
\* call on a scheduler that is not running (never started, or stopped
\* before) changes nothing else and raises nothing
C13_StopIdempotent ==
    [][lp.stops' # lp.stops
         => /\ ~running'
            /\ ~running => UNCHANGED <<cfg, status, store_urls, latest_ts, disk,
                                        clock, pc, loc, next_run, running>>]_vars

C13_Witness ==
    /\ lp.stops = 2
    /\ ~running
    /\ pc["loop"] \in {"off", "exited"}

TimesOf(metadatas) ==
    UNION { {metadatas[k].ingestion_timestamp, metadatas[k].file_mod_time} :
              k \in 1..Len(metadatas) } \ {None}

\* the latest of them
LatestTime(metadatas) ==
    CHOOSE t \in TimesOf(metadatas) : \A u \in TimesOf(metadatas) : u <= t

\* C21: check_if_data_needs_update(H) on a readable store whose latest
\* timestamp is T returns needs_update false with next_update_time T + H when
\* now < T + H, and needs_update true with no next_update_time when
\* now >= T + H; on a store without chunks (or without any timestamp) it
\* returns needs_update true and no timestamp.
C21_FreshUntilIntervalOver ==
    (fr.called /\ fr.scan_ok) =>
        IF TimesOf(fr.metadatas) = {}
        THEN fr.result = <<TRUE, None, None>>
        ELSE LET T == LatestTime(fr.metadatas)
                 H == fr.interval_hours
             IN  /\ fr.result[2] = T
                 /\ clock < T + H => (~fr.result[1] /\ fr.result[3] = T + H)
                 /\ clock >= T + H => (fr.result[1] /\ fr.result[3] = None)

C21_Witness ==
    /\ fr.called /\ fr.scan_ok
    /\ Len(fr.metadatas) = 2
    /\ fr.metadatas[1].ingestion_timestamp # None
    /\ fr.metadatas[2].file_mod_time # None
    /\ clock = LatestTime(fr.metadatas) + fr.interval_hours
    /\ fr.result[1]

\* the store could not be read
StoreFailed == {"ctor_fail", "scan_fail"}

\* the entries of a list that are not empty once normalised, in order
NonBlank(urls) == SeqFilter(urls, {u \in Range(urls) : Normalize(u) # <<>>})

\* the step of run_full_pipeline in which detect_new_urls returns
DetectionReturns == pc["op"] = "d_scan" /\ pc["op"]' # "d_scan"

\* the step of run_full_pipeline in which should_run_pipeline returns
FreshnessReturns == pc["op"] = "p_fresh" /\ pc["op"]' # "p_fresh"

\* after a freshness check that could not read the store the run goes on
RunsAfterFailedCheck ==
    (FreshnessReturns /\ loc["op"].fresh_outcome' \in StoreFailed)
        => /\ loc["op"].fresh_result' = "stale"
           /\ ~loc["op"].skipped'
           /\ loc["op"].raised' = "None"
           /\ pc["op"]' = "s_begin"

\* after a detection that could not read the store nothing is raised, and
\* the run goes on to scrape the URLs returned, if there are any
RunsAfterFailedDetection ==
    (DetectionReturns /\ loc["op"].detect_outcome' \in StoreFailed)
        => /\ loc["op"].raised' = "None"
           /\ ~loc["op"].skipped'
           /\ loc["op"].new_urls' # <<>> => pc["op"]' = "s_begin"

\* C22 (as stated): when the store cannot be read, detection returns every
\* candidate URL as new and the freshness check reports that an update is
\* needed; neither raises, neither lets the run be skipped
C22_FailureTreatsAllAsNew ==
    [][/\ (DetectionReturns /\ loc["op"].detect_outcome' \in StoreFailed)
            => loc["op"].new_urls' = cfg.urls
       /\ RunsAfterFailedDetection
       /\ RunsAfterFailedCheck]_vars

\* C22 (amended): when the scan of the metadata raises, detection returns
\* every candidate that is not empty once normalised, and every candidate when
\* the store cannot be opened; the freshness check reports that an update is
\* needed; neither raises, neither lets the run be skipped
C22_FailureTreatsNonBlankAsNew ==
    [][/\ (DetectionReturns /\ loc["op"].detect_outcome' = "scan_fail")
            => loc["op"].new_urls' = NonBlank(cfg.urls)
       /\ (DetectionReturns /\ loc["op"].detect_outcome' = "ctor_fail")
            => loc["op"].new_urls' = cfg.urls
       /\ RunsAfterFailedDetection
       /\ RunsAfterFailedCheck]_vars

C22_Witness ==
    /\ loc["op"].detect_outcome = "scan_fail"
    /\ store_urls = {Url(1)}
    /\ cfg.urls = << <<" ">>, Url(1) >>
    /\ loc["op"].new_urls = << Url(1) >>
    /\ pc["op"] \in InScraping

\* a string is a URL in full: a scheme, then a network location
WellFormed(u) ==
    /\ StartsWith(u, HttpScheme \o SchemeSep) \/ StartsWith(u, HttpsScheme \o SchemeSep)
    /\ urlparse(u).netloc # <<>>

\* C30: normalize_url is idempotent (the result of a second application is
\* that of the first); "a.com/a" without scheme yields "https://a.com/a"; a
\* string without scheme that does not look like a domain yields None; no
\* result is a malformed URL.
C30_NormalizeIdempotent ==
    /\ ss.pc = "end" => ss.twice = ss.once
    /\ ss.pc # "call" =>
          /\ ss.url = Expand(<<"a", ".", "com", "/", "a">>)
                => ss.once = Expand(<<"https://", "a", ".", "com", "/", "a">>)
          /\ ss.once # NoUrl => WellFormed(ss.once)

\* the words of a question, as a set
WordsOf(words) == Range(words)

\* a question is parameter-wide, by its words: it has a parameter synonym and
\* either no fund indicator or a word that asks for all funds
ParameterWide(words) ==
    /\ "AUM" \in WordsOf(words)
    /\ "of" \notin WordsOf(words) \/ WordsOf(words) \cap {"all", "compare"} # {}

\* C23: a question is classified parameter-wide exactly when it has a
\* parameter synonym and either has no fund indicator or asks for all funds;
\* a parameter-wide question is answered from get_all_funds and never calls
\* the similarity search, every other question calls the similarity search
\* and never get_all_funds.
C23_ClassifiedAndRouted ==
    rag.pc # "call" =>
        /\ rag.is_parameter_query = ParameterWide(rag.words)
        /\ rag.store_calls = IF ParameterWide(rag.words) THEN <<"get_all_funds">>
                             ELSE <<"similarity_search">>

C27_LlmInvokedOnce ==
    /\ rag.llm_calls <= 1
    /\ rag.pc \in {"respond", "done"} => rag.llm_calls = 1
    /\ rag.raised = "llm" => (rag.pc = "raised" /\ rag.llm_calls = 1)
    /\ rag.pc = "raised" => rag.result = NoCall

C27_Witness ==
    /\ rag.raised = "llm"
    /\ rag.documents # <<>>

\* the k of a call: TOP_K_RESULTS when none is given
GivenK == IF rag.k = 0 THEN TopK ELSE rag.k

HostOf(netloc) == SubSeq(netloc, 1, FindFirst(netloc, 1, {":"}) - 1)

\* text has http:// or https:// in it
UrlShaped(text) ==
    Contains(text, HttpScheme \o SchemeSep) \/ Contains(text, HttpsScheme \o SchemeSep)

\* the URLs of the raw answer of the LLM, normalized
RawAnswerUrls == extract_urls_from_text(rag.raw_answer)

\* the first position of v in the list s
FirstAt(s, v) == CHOOSE i \in 1..Len(s) : s[i] = v /\ \A j \in 1..(i - 1) : s[j] # v

\* C24: every URL of the raw answer of the LLM is, normalized, in the returned
\* citation_urls, after the source URLs of the retrieved chunks and without
\* duplicates, and the returned answer has no http:// or https:// in it
C24_RawAnswerUrlsCited ==
    rag.pc = "done" =>
        /\ Range(RawAnswerUrls) \subseteq Range(rag.result.citation_urls)
        /\ SubSeq(rag.result.citation_urls, 1, Len(rag.source_urls)) = rag.source_urls
        /\ \A i, j \in 1..Len(rag.result.citation_urls) :
              rag.result.citation_urls[i] = rag.result.citation_urls[j] => i = j
        /\ ~UrlShaped(rag.result.answer)

\* C25: the citation URLs collected from the retrieved chunks have no
\* duplicates, are in the first-seen order of the chunks, and each starts with
\* http:// or https:// and has a host; a chunk whose source_url is empty or
\* malformed contributes none
C25_SourceUrlsWellFormed ==
    rag.pc \in {"invoke", "respond", "done"} =>
        LET normalized == [i \in 1..Len(rag.documents) |->
                              IF rag.documents[i].source_url = <<>> THEN NoUrl
                              ELSE normalize_url(rag.documents[i].source_url)]
        IN  /\ \A i, j \in 1..Len(rag.source_urls) :
                  rag.source_urls[i] = rag.source_urls[j] => i = j
            /\ Range(rag.source_urls) = Range(normalized) \ {NoUrl}
            /\ \A i, j \in 1..Len(rag.source_urls) :
                  i < j => FirstAt(normalized, rag.source_urls[i])
                              < FirstAt(normalized, rag.source_urls[j])
            /\ \A i \in 1..Len(rag.source_urls) :
                  /\ UrlShaped(SubSeq(rag.source_urls[i], 1, 8))
                  /\ HostOf(urlparse(rag.source_urls[i]).netloc) # <<>>

\* C29: for k in 1..5, similarity_search_with_score returns at most k pairs
\* (chunk, score) with score = 1 - cosine distance and the scores never
\* increase along the list; similarity_search returns at most k chunks
C29_ScoresNonIncreasing ==
    (ss.pc = "done" /\ ss.k >= 1) =>
        /\ Len(ss.documents) <= ss.k
        /\ Len(ss.documents_with_scores) <= ss.k
        /\ \A i \in 1..Len(ss.documents_with_scores) :
              ss.documents_with_scores[i][2] = 1 - ss.documents_with_scores[i][1].distance
        /\ \A i, j \in 1..Len(ss.documents_with_scores) :
              i < j => ss.documents_with_scores[i][2] >= ss.documents_with_scores[j][2]

\* fewer pairs than chunks, of different scores, from a collection that is
\* not in the order of the distances
C29_Witness ==
    /\ ss.pc = "done"
    /\ ss.fn = "similarity_search_with_score"
    /\ ss.k >= 1
    /\ Len(ss.documents_with_scores) = ss.k
    /\ ss.k < Len(ss.chunks)
    /\ ss.chunks[1].distance > ss.chunks[2].distance
    /\ ss.documents_with_scores[1][2] > ss.documents_with_scores[ss.k][2]

\* the run status shows a failure and does not show a completed run
ErrorState == status.error # "None" /\ status.progress # "completed"

\* the ingestion stage of the run of thread t failed: run_ingestion returned
\* an error, or ingest_data left it with SystemExit
IngestionFailed(t) ==
    \/ pc[t] = "ret" /\ loc[t].ingestion_result = "error"
    \/ pc[t] = "dead" /\ loc[t].raised = "SystemExit"

\* C31: in one run_full_pipeline execution the status shows the stages in the
\* order detection, scraping, ingestion, completed: detection is shown only
\* before the scrape, scraping only before the ingestion, the ingestion begins
\* only when every URL of the run has its result, and a run whose ingestion
\* failed ends in an error state, not in "completed"
C31_StagesInOrder ==
    \A t \in Threads :
        loc[t].op = "pipeline" =>
            /\ status.current_operation = "detection"
                  => loc[t].scraping_result = "None" /\ loc[t].results = <<>>
                     /\ ~loc[t].ingest_called
            /\ status.current_operation = "scraping" => ~loc[t].ingest_called
            /\ loc[t].ingest_called
                  => Len(loc[t].results) = Len(loc[t].urls_to_process)
            /\ IngestionFailed(t) => ErrorState

\* the positions of a run from the first URL of its scrape to its end
AfterFirstUrl == {"s_pre", "s_scrape", "s_end", "i_begin", "i_run", "p_final"}

\* list a begins list b
IsPrefix(a, b) == Len(a) <= Len(b) /\ SubSeq(b, 1, Len(a)) = a

\* C32: while a run scrapes the URL number i + 1 of its list, get_status shows
\* the outcomes of its first i URLs, in order, and an outcome once shown stays
\* as it is until the run ends
C32_OutcomesVisibleDuringRun ==
    /\ [](\A t \in Threads :
             pc[t] = "s_scrape" => IsPrefix(loc[t].results, get_status.urls_processed))
    /\ [][\A t \in Threads :
             (pc[t] \in AfterFirstUrl /\ pc'[t] \in AfterFirstUrl)
                => IsPrefix(status.urls_processed, status'.urls_processed)]_vars

\* the batches of the call that have succeeded
Succeeded == IF emb.pc \in {"try", "raised"} THEN emb.batches - 1 ELSE emb.batches

\* C33: every call of the embedding provider made for upsert_documents or
\* add_documents carries at most 10 texts whatever batch_size the caller
\* gave; the vectors returned are one per text, in the order of the texts;
\* the delay between batches has been slept once after every batch that
\* succeeded, the final batch excepted
C33_BatchesClamped ==
    emb.pc # "enter" =>
        /\ emb.largest_call <= BatchCeiling
        /\ emb.pc = "done" => emb.returned = [j \in 1..emb.n_texts |-> j]
        /\ emb.delays = IF Succeeded > 0 /\ emb.i >= emb.n_texts
                        THEN Succeeded - 1 ELSE Succeeded

\* more texts than the ceiling and a greater batch_size: a batch of ten, a
\* delay, and the rest
C33_Witness ==
    /\ emb.pc = "done"
    /\ emb.given > BatchCeiling /\ emb.n_texts > BatchCeiling
    /\ emb.largest_call = BatchCeiling
    /\ emb.batches = 2 /\ emb.delays = 1
    /\ Len(emb.returned) = emb.n_texts

\* C34: a call of upsert_documents that fails with an embedding error leaves
\* the collection as it was before the call: no chunk is written, and no
\* chunk's ingestion_timestamp is refreshed
C34_FailedUpsertLeavesStore ==
    (col.last.done /\ col.last.raised) => col.last.after = col.last.before

\* the operation of thread t has returned or died
Ended(t) == loc[t].op # "none" /\ pc[t] \in {"ret", "dead"}

\* C35: when an operation that set is_running to true has ended, in success,
\* skip or failure, is_running is false again: the status does not stay
\* "running" after the operation returned or died
C35_RunningClearedAtEnd ==
    \A t \in Threads : Ended(t) => ~get_status.is_running

\* the scheduler_loop threads that have not ended
AliveLoops == {k \in 1..Len(sched.loops) : sched.loops[k].pc # "exited"}

\* the live threads that found self.running set after the latest start()
LoopsGoingOn == {k \in AliveLoops : sched.loops[k].seen = sched.starts}

\* C36: over any sequence of start() and stop() calls on one ScheduledScraper
\* at most one scheduler loop is alive at a time: start() while running
\* creates no second thread, and after stop() and start() the thread of
\* before does not go on beside the new one. Stated of the threads that
\* found self.running set after the latest start(): a thread that stop()
\* left asleep and that ends at its next test is not counted
C36_AtMostOneLoop == Cardinality(LoopsGoingOn) <= 1

====
